---- MODULE Spec2Model ----
(***************************************************************************)
(* A model of DeepCaption's training program (train.py) and of the         *)
(* decoders it trains (model.py).                                          *)
(*                                                                         *)
(*   SpecSchedule  get_teacher_prob, the inverse sigmoid decay schedule    *)
(*   SpecDecode    one forward call of a decoder (plain, spatial, soft)    *)
(*   SpecTrain     main(): one fresh training run, its epoch loop, its     *)
(*                 checkpoints and its stats file                          *)
(*   SpecResume    main() run after run on one model directory: resume,    *)
(*                 loading a checkpoint, the stats file across runs        *)
(*   SpecValidate  main() run after run with a validation set: periodic    *)
(*                 validation, --validate_only, the model's mode           *)
(*   SpecFeatures  ModelParams._get_features on one dict                   *)
(*   SpecSample    two calls of sample on one model                        *)
(*   SpecEncoderLoad  EncoderCNN.load_state_dict on one state dict         *)
(*   SpecExtractors   FeatureExtractor.list on a list of backbone names    *)
(*                                                                         *)
(* Real numbers are fixed point: the real r is the integer r * Scale,      *)
(* rounded down.  Indices are the source's (0-based) wherever a function   *)
(* is used, and shifted by one where a sequence is used.                   *)
(***************************************************************************)
EXTENDS Integers, Sequences, FiniteSets, TLC

VARIABLES
    \* ---- get_teacher_prob applied to drawn inputs (SpecSchedule)
    tf_k,           \* k
    tf_beta,        \* beta
    tf_i,           \* i of the latest evaluation, -1 before the first
    tf_p,           \* its result
    tf_prev,        \* <<i, p>> of the evaluation before it, <<-1, -1>> if none
    \* ---- one decoder forward call (SpecDecode)
    d_variant,      \* the decoder class: "plain", "spatial" or "soft"
    d_forcing,      \* teacher_forcing, the policy name
    d_teacher_p,    \* teacher_p
    d_lengths,      \* lengths, a function on 0..B-1, descending
    d_persist,      \* whether persistent features come with the batch
    d_pc,           \* "start", "loop", "done"
    d_t,            \* the loop variable t
    d_inputs,       \* inputs: what DecoderRNN's loop feeds the LSTM next
    d_fed,          \* the inputs the recurrent cell has consumed, step by step
    d_draws,        \* the values float(torch.rand(1)) gave, call by call
    d_outputs,      \* the outputs tensor, per slot [b][s]: "zero", "start", "logits"
    d_alphas,       \* the alphas tensor, per slot [b][s]: "zero", "alpha"
    d_active,       \* batch_size_t of every step taken so far
    d_result,       \* "pending", "output", "none" (returned None), "raise"
    d_rows          \* the packed output: the slots <<b, s>> in packed order

schedVars == <<tf_k, tf_beta, tf_i, tf_p, tf_prev>>

decVars == <<d_variant, d_forcing, d_teacher_p, d_lengths, d_persist, d_pc, d_t,
             d_inputs, d_fed, d_draws, d_outputs, d_alphas, d_active, d_result, d_rows>>


-----------------------------------------------------------------------------
(* Numbers *)

\* Fixed point resolution of the model: 1.0 is Scale.
Scale == 100

\* Largest iteration index SpecSchedule evaluates the schedule at.
MaxIter == 6

\* The values of --teacher_forcing_k tried: 0 (pure teacher forcing), small
\* values, the lower end of the documented range, and the default.
KSet == {0, 1, 2, 400, 6500}

\* The values of --teacher_forcing_beta tried: the default 1, 0 and a negative one.
BetaSet == {-1, 0, 1}

\* np.exp on a non-negative fixed point argument: the Taylor series, each term
\* rounded down (every term, and so the sum, is monotone in x).
RECURSIVE ExpTerms(_, _, _)
ExpTerms(x, n, term) ==
    IF term = 0 THEN 0
    ELSE term + ExpTerms(x, n + 1, (term * x) \div (n * Scale))

\* np.exp(x) for a fixed point x of either sign.
np_exp(x) ==
    IF x >= 0 THEN ExpTerms(x, 1, Scale)
    ELSE (Scale * Scale) \div ExpTerms(-x, 1, Scale)

\* train.py get_teacher_prob with the k == 0 case answering 0.0 (teacher
\* forcing "turned off", as the docstring words it) instead of 1.0.
get_teacher_prob_off(k, i, beta) ==
    IF k = 0 THEN 0
    ELSE (k * Scale * Scale) \div (k * Scale + np_exp((i * beta * Scale) \div k))

\* train.py get_teacher_prob with the sum in the denominator written as a product.
get_teacher_prob_prod(k, i, beta) ==
    IF k = 0 THEN Scale
    ELSE (k * Scale * Scale) \div (k * np_exp((i * beta * Scale) \div k))

\* train.py get_teacher_prob with the exponent's sign flipped.
get_teacher_prob_neg(k, i, beta) ==
    IF k = 0 THEN Scale
    ELSE (k * Scale * Scale) \div (k * Scale + np_exp((0 - (i * beta * Scale)) \div k))

\* train.py get_teacher_prob(k, i, beta): 1.0 when k == 0, else
\* k / (k + exp(i * beta / k)).  k and beta are floats holding whole numbers here.
get_teacher_prob(k, i, beta) ==
    IF k = 0 THEN Scale
    ELSE (k * Scale * Scale) \div (k * Scale + np_exp((i * beta * Scale) \div k))

-----------------------------------------------------------------------------
(* SpecSchedule: the schedule evaluated at drawn iteration indices *)

InitSchedule ==
    /\ tf_k \in KSet
    /\ tf_beta \in BetaSet
    /\ tf_i = -1
    /\ tf_p = -1
    /\ tf_prev = <<-1, -1>>

\* One call get_teacher_prob(k, i, beta), as main makes for every batch.
Evaluate ==
    \E i \in 0..MaxIter :
        /\ tf_i' = i
        /\ tf_p' = get_teacher_prob(tf_k, i, tf_beta)
        /\ tf_prev' = <<tf_i, tf_p>>
        /\ UNCHANGED <<tf_k, tf_beta>>

\* The variables of the other specifications, at rest.
IdleSchedule ==
    /\ tf_k = 0
    /\ tf_beta = 0
    /\ tf_i = -1
    /\ tf_p = -1
    /\ tf_prev = <<-1, -1>>


-----------------------------------------------------------------------------
(* The decoders' forward calls (model.py) *)

\* Largest batch size and longest caption of the batches decoded.
MaxBatch == 3
MaxLen == 3

\* The policy names DecoderRNN.forward knows, and one it does not.
RecognisedForcing == {"always", "sampled", "additive", "additive_sampled"}
ForcingNames == RecognisedForcing \cup {"bogus"}

\* The values of teacher_p tried, and the values torch.rand(1) can take: [0, 1).
TeacherPSet == {0, Scale \div 2, Scale}
RandSet == {0, Scale \div 2, Scale - 1}

\* The batches: lengths is descending (the loader's contract) and every caption
\* has a token; captions is padded to the longest, lengths[0].
Batches ==
    { l \in UNION { [0..(n - 1) -> 1..MaxLen] : n \in 1..MaxBatch } :
        \A b \in DOMAIN l : (b + 1) \in DOMAIN l => l[b] >= l[b + 1] }

BatchSize(lengths) == Cardinality(DOMAIN lengths)

\* captions.size()[1]
CaptionLength(lengths) == lengths[0]

\* sum([l > t for l in lengths])
batch_size_t(lengths, t) == Cardinality({ b \in DOMAIN lengths : lengths[b] > t })

\* self.embed(captions)[:, c]: the embedding of the ground truth token at c.
Embed(c) == [src |-> "gt", pos |-> c]

\* The embeddings without the encoder's features in front: column j is the
\* embedding of token j.
EmbeddingsAt_unshifted(j) == Embed(j)

\* torch.cat([features.unsqueeze(1), embeddings], 1)[:, j]: the encoder's
\* features first, then the caption's embeddings.
EmbeddingsAt(j) == IF j = 0 THEN [src |-> "features", pos |-> 0] ELSE Embed(j - 1)

\* seq_length: 1 + the caption length where the features are prepended
\* (DecoderRNN, SpatialAttentionDecoderRNN), the caption length in
\* SoftAttentionDecoderRNN.
SeqLength(variant, lengths) ==
    IF variant = "soft" THEN CaptionLength(lengths) ELSE CaptionLength(lengths) + 1

\* torch.zeros(batch_size, seq_length, ...)
Zeros(lengths, n) == [b \in DOMAIN lengths |-> [s \in 0..(n - 1) |-> "zero"]]

\* pack_padded_sequence(x, lengths, batch_first=True)[0]: step by step, the
\* rows of the examples longer than the step; <<b, s>> names row x[b, s].
RECURSIVE PackFrom(_, _)
PackFrom(lengths, s) ==
    IF s >= lengths[0] THEN << >>
    ELSE [ r \in 1..batch_size_t(lengths, s) |-> <<r - 1, s>> ] \o PackFrom(lengths, s + 1)

pack_padded_sequence(lengths) == PackFrom(lengths, 0)

\* sum(lengths)
RECURSIVE SumFrom(_, _)
SumFrom(lengths, b) == IF b \notin DOMAIN lengths THEN 0 ELSE lengths[b] + SumFrom(lengths, b + 1)

SumLengths(lengths) == SumFrom(lengths, 0)

\* The 'always' branch of DecoderRNN.forward: the LSTM consumes the packed
\* embeddings, at step s the rows embeddings[:batch_size_s, s].
AlwaysInputs(lengths) == [ s \in 1..lengths[0] |-> EmbeddingsAt(s - 1) ]

\* teacher_p * embed_gt_t + (1 - teacher_p) * embed_sampled_t, with embed_gt_t
\* = embeddings[:, t + 1] and embed_sampled_t the embedding of step t's argmax.
Blend(p, t) == [src |-> "blend", pos |-> t, w |-> p]

\* self.embed(predicted), predicted the argmax of step t's output.
Predicted(t) == [src |-> "pred", pos |-> t]

\* DecoderRNN.forward's choice of embed_t with the test of sampled reading
\* teacher_p as the probability of feeding the prediction.
SelectInput_inverted(forcing, r, p, t) ==
    CASE forcing = "sampled" -> IF r < p THEN Predicted(t) ELSE EmbeddingsAt(t + 1)
      [] forcing = "additive" -> Blend(p, t)
      [] forcing = "additive_sampled" -> IF r < p THEN EmbeddingsAt(t + 1) ELSE Blend(p, t)
      [] OTHER -> [src |-> "invalid", pos |-> t]

\* DecoderRNN.forward's choice of embed_t with the test of additive_sampled
\* reading teacher_p as the probability of leaving teacher forcing.
SelectInput_flipped(forcing, r, p, t) ==
    CASE forcing = "sampled" -> IF r < p THEN EmbeddingsAt(t + 1) ELSE Predicted(t)
      [] forcing = "additive" -> Blend(p, t)
      [] forcing = "additive_sampled" -> IF r >= p THEN EmbeddingsAt(t + 1) ELSE Blend(p, t)
      [] OTHER -> [src |-> "invalid", pos |-> t]

\* DecoderRNN.forward's choice of embed_t at step t: r is float(torch.rand(1)).
SelectInput(forcing, r, p, t) ==
    CASE forcing = "sampled" -> IF r < p THEN EmbeddingsAt(t + 1) ELSE Predicted(t)
      [] forcing = "additive" -> Blend(p, t)
      [] forcing = "additive_sampled" -> IF r < p THEN EmbeddingsAt(t + 1) ELSE Blend(p, t)
      [] OTHER -> [src |-> "invalid", pos |-> t]

\* What a forward call ends in, by decoder, policy and persistent features:
\* torch.cat([features, persist_features], 1) of DecoderRNN's step loop takes
\* the 2-dimensional features and the persistent features expanded to 3
\* dimensions, and raises when there are any.
ForwardResult(variant, forcing, persist) ==
    IF variant # "plain" \/ forcing = "always" THEN "output"
    ELSE IF persist THEN "raise"
    ELSE IF forcing \in RecognisedForcing THEN "output"
    ELSE "none"

InitDecode ==
    /\ d_variant \in {"plain", "spatial", "soft"}
    /\ d_forcing \in ForcingNames
    /\ d_teacher_p \in TeacherPSet
    /\ d_lengths \in Batches
    \* the attention decoders read the feature grid from the persistent features
    /\ d_persist \in (IF d_variant = "plain" THEN BOOLEAN ELSE {TRUE})
    /\ d_pc = "start"
    /\ d_t = 0
    /\ d_inputs = << >>
    /\ d_fed = << >>
    /\ d_draws = << >>
    /\ d_outputs = << >>
    /\ d_alphas = << >>
    /\ d_active = << >>
    /\ d_result = "pending"
    /\ d_rows = << >>

IdleDecode ==
    /\ d_variant = "plain"
    /\ d_forcing = "always"
    /\ d_teacher_p = Scale
    /\ d_lengths = << >>
    /\ d_persist = FALSE
    /\ d_pc = "idle"
    /\ d_t = 0
    /\ d_inputs = << >>
    /\ d_fed = << >>
    /\ d_draws = << >>
    /\ d_outputs = << >>
    /\ d_alphas = << >>
    /\ d_active = << >>
    /\ d_result = "pending"
    /\ d_rows = << >>

decInputs == <<d_variant, d_forcing, d_teacher_p, d_lengths, d_persist>>

\* DecoderRNN.forward, teacher_forcing == 'always': one LSTM call on the packed
\* inputs, its packed hidden states through the linear layer.
PlainForwardAlways ==
    /\ d_pc = "start" /\ d_variant = "plain" /\ d_forcing = "always"
    /\ d_fed' = AlwaysInputs(d_lengths)
    /\ d_active' = [ s \in 1..d_lengths[0] |-> batch_size_t(d_lengths, s - 1) ]
    /\ d_rows' = pack_padded_sequence(d_lengths)
    /\ d_result' = "output"
    /\ d_pc' = "done"
    /\ UNCHANGED <<decInputs, d_draws, d_t, d_inputs, d_outputs, d_alphas>>

\* DecoderRNN.forward, any other policy, up to the loop: the first inputs are
\* the features with the persistent features.
PlainForwardBegin ==
    /\ d_pc = "start" /\ d_variant = "plain" /\ d_forcing # "always"
    /\ IF d_persist
       THEN /\ d_result' = "raise"
            /\ d_pc' = "done"
            /\ UNCHANGED <<d_outputs, d_inputs>>
       ELSE /\ d_outputs' = Zeros(d_lengths, SeqLength(d_variant, d_lengths))
            /\ d_inputs' = EmbeddingsAt(0)
            /\ d_pc' = "loop"
            /\ UNCHANGED d_result
    /\ UNCHANGED <<decInputs, d_draws, d_t, d_fed, d_alphas, d_active, d_rows>>

\* One pass of DecoderRNN.forward's loop: the whole batch is advanced, step t's
\* output stored, the next inputs chosen by the policy.
PlainForwardStep ==
    /\ d_pc = "loop" /\ d_variant = "plain"
    /\ d_t < SeqLength(d_variant, d_lengths) - 1
    /\ \E r \in RandSet :
        LET embed_t == SelectInput(d_forcing, r, d_teacher_p, d_t) IN
        /\ d_fed' = Append(d_fed, d_inputs)
        /\ d_draws' = IF d_forcing \in {"sampled", "additive_sampled"}
                      THEN Append(d_draws, r) ELSE d_draws
        /\ d_active' = Append(d_active, BatchSize(d_lengths))
        /\ IF embed_t.src = "invalid"
           THEN /\ d_result' = "none"
                /\ d_pc' = "done"
                /\ UNCHANGED <<d_outputs, d_inputs, d_t>>
           ELSE /\ d_outputs' = [ b \in DOMAIN d_lengths |->
                                    [d_outputs[b] EXCEPT ![d_t] = "logits"] ]
                /\ d_inputs' = embed_t
                /\ d_t' = d_t + 1
                /\ UNCHANGED <<d_result, d_pc>>
    /\ UNCHANGED <<decInputs, d_alphas, d_rows>>

\* The end of DecoderRNN.forward's loop: the padded outputs are packed.
PlainForwardPack ==
    /\ d_pc = "loop" /\ d_variant = "plain"
    /\ d_t = SeqLength(d_variant, d_lengths) - 1
    /\ d_rows' = pack_padded_sequence(d_lengths)
    /\ d_result' = "output"
    /\ d_pc' = "done"
    /\ UNCHANGED <<decInputs, d_draws, d_t, d_inputs, d_fed, d_outputs, d_alphas, d_active>>

\* SpatialAttentionDecoderRNN.forward up to the loop.
SpatialForwardBegin ==
    /\ d_pc = "start" /\ d_variant = "spatial"
    /\ d_outputs' = Zeros(d_lengths, SeqLength(d_variant, d_lengths))
    /\ d_alphas' = Zeros(d_lengths, SeqLength(d_variant, d_lengths))
    /\ d_pc' = "loop"
    /\ UNCHANGED <<decInputs, d_draws, d_t, d_inputs, d_fed, d_active, d_result, d_rows>>

\* One pass of SpatialAttentionDecoderRNN.forward's loop: the examples longer
\* than t are advanced on embeddings[:, t]; teacher_forcing is not read.
SpatialForwardStep ==
    /\ d_pc = "loop" /\ d_variant = "spatial"
    /\ d_t < SeqLength(d_variant, d_lengths) - 1
    /\ LET n == batch_size_t(d_lengths, d_t) IN
        /\ d_fed' = Append(d_fed, EmbeddingsAt(d_t))
        /\ d_active' = Append(d_active, n)
        /\ d_outputs' = [ b \in DOMAIN d_lengths |->
                            IF b < n THEN [d_outputs[b] EXCEPT ![d_t] = "logits"]
                            ELSE d_outputs[b] ]
        /\ d_alphas' = [ b \in DOMAIN d_lengths |->
                            IF b < n THEN [d_alphas[b] EXCEPT ![d_t] = "alpha"]
                            ELSE d_alphas[b] ]
    /\ d_t' = d_t + 1
    /\ UNCHANGED <<decInputs, d_draws, d_inputs, d_result, d_pc, d_rows>>

\* The end of SpatialAttentionDecoderRNN.forward.
SpatialForwardPack ==
    /\ d_pc = "loop" /\ d_variant = "spatial"
    /\ d_t = SeqLength(d_variant, d_lengths) - 1
    /\ d_rows' = pack_padded_sequence(d_lengths)
    /\ d_result' = "output"
    /\ d_pc' = "done"
    /\ UNCHANGED <<decInputs, d_draws, d_t, d_inputs, d_fed, d_outputs, d_alphas, d_active>>

\* SoftAttentionDecoderRNN.forward up to the loop: slot 0 of every example is
\* the one-hot <start> token.
SoftForwardBegin ==
    /\ d_pc = "start" /\ d_variant = "soft"
    /\ d_outputs' = [ b \in DOMAIN d_lengths |->
                        [ s \in 0..(SeqLength(d_variant, d_lengths) - 1) |->
                            IF s = 0 THEN "start" ELSE "zero" ] ]
    /\ d_alphas' = Zeros(d_lengths, SeqLength(d_variant, d_lengths))
    /\ d_pc' = "loop"
    /\ UNCHANGED <<decInputs, d_draws, d_t, d_inputs, d_fed, d_active, d_result, d_rows>>

\* One pass of SoftAttentionDecoderRNN.forward's loop: the examples longer than
\* t are advanced on the embedding of token t, the result stored in slot t + 1;
\* teacher_forcing is not read.
SoftForwardStep ==
    /\ d_pc = "loop" /\ d_variant = "soft"
    /\ d_t < SeqLength(d_variant, d_lengths) - 1
    /\ LET n == batch_size_t(d_lengths, d_t) IN
        /\ d_fed' = Append(d_fed, Embed(d_t))
        /\ d_active' = Append(d_active, n)
        /\ d_outputs' = [ b \in DOMAIN d_lengths |->
                            IF b < n THEN [d_outputs[b] EXCEPT ![d_t + 1] = "logits"]
                            ELSE d_outputs[b] ]
        /\ d_alphas' = [ b \in DOMAIN d_lengths |->
                            IF b < n THEN [d_alphas[b] EXCEPT ![d_t + 1] = "alpha"]
                            ELSE d_alphas[b] ]
    /\ d_t' = d_t + 1
    /\ UNCHANGED <<decInputs, d_draws, d_inputs, d_result, d_pc, d_rows>>

\* The end of SoftAttentionDecoderRNN.forward.
SoftForwardPack ==
    /\ d_pc = "loop" /\ d_variant = "soft"
    /\ d_t = SeqLength(d_variant, d_lengths) - 1
    /\ d_rows' = pack_padded_sequence(d_lengths)
    /\ d_result' = "output"
    /\ d_pc' = "done"
    /\ UNCHANGED <<decInputs, d_draws, d_t, d_inputs, d_fed, d_outputs, d_alphas, d_active>>

-----------------------------------------------------------------------------
(* train.py and ModelParams: values *)

\* Python's None, among numbers and among strings.
NoneInt == 0 - 1
NoneStr == "None"

\* Learning rates are counted in thousandths: default_lr is 0.001.
default_lr == 1

\* The largest --num_epochs, the largest len(data_loader), and the number of
\* times the program is run on one model directory.
MaxEpochs == 2
MaxLoader == 2
MaxRuns == 2

\* A Python str is a sequence of units: each unit is one of the characters
\* "," "." "/" "+" or a run of other characters.

\* str.join
RECURSIVE join(_, _)
join(sep, strs) ==
    IF Len(strs) = 0 THEN << >>
    ELSE IF Len(strs) = 1 THEN strs[1]
    ELSE strs[1] \o <<sep>> \o join(sep, Tail(strs))

\* str.split(sep): the pieces between the separators, empty pieces included.
RECURSIVE split(_, _)
split(p, sep) ==
    IF \A j \in 1..Len(p) : p[j] # sep THEN <<p>>
    ELSE LET k == CHOOSE j \in 1..Len(p) : p[j] = sep /\ \A h \in 1..(j - 1) : p[h] # sep
         IN  <<SubSeq(p, 1, k - 1)>> \o split(SubSeq(p, k + 1, Len(p)), sep)

\* str.rfind: the highest index (from 0) where c occurs in p, -1 when nowhere.
rfind(p, c) ==
    IF \E j \in 1..Len(p) : p[j] = c
    THEN (CHOOSE j \in 1..Len(p) : p[j] = c /\ \A h \in (j + 1)..Len(p) : p[h] # c) - 1
    ELSE 0 - 1

\* os.path.splitext with any dot of the name taken for the start of an
\* extension.
splitext_anydot(p) ==
    LET dotIndex == rfind(p, ".") IN
    IF dotIndex >= 0
    THEN <<SubSeq(p, 1, dotIndex), SubSeq(p, dotIndex + 1, Len(p))>>
    ELSE <<p, << >> >>

\* os.path.splitext: (root, ext); ext is empty or begins with the last dot of
\* the last path component, leading dots of the component not counted.
splitext(p) ==
    LET sepIndex == rfind(p, "/")
        dotIndex == rfind(p, ".")
    IN  IF /\ dotIndex > sepIndex
           /\ \E filenameIndex \in (sepIndex + 1)..(dotIndex - 1) : p[filenameIndex + 1] # "."
        THEN <<SubSeq(p, 1, dotIndex), SubSeq(p, dotIndex + 1, Len(p))>>
        ELSE <<p, << >> >>

\* os.path.basename
basename(p) == SubSeq(p, rfind(p, "/") + 2, Len(p))

\* str.lower, on the units that the command lines tried are made of.
lower(s) ==
    [ j \in 1..Len(s) |-> IF s[j] \in {"CIDEr", "Cider", "CIDER"} THEN "cider"
                          ELSE IF s[j] \in {"BLEU", "Bleu"} THEN "bleu"
                          ELSE s[j] ]

\* str.strip: without the blanks at either end.
RECURSIVE strip(_)
strip(s) ==
    IF Len(s) > 0 /\ s[1] = " " THEN strip(Tail(s))
    ELSE IF Len(s) > 0 /\ s[Len(s)] = " " THEN strip(SubSeq(s, 1, Len(s) - 1))
    ELSE s

\* A feature name as typed: stem, or stem.ext when ext is not "".
FeatureName(stem, ext) == IF ext = "" THEN <<stem>> ELSE <<stem, ".", ext>>

\* A comma separated feature list as typed, and None.
FeatureString(names) == [str |-> join(",", names)]
NoFeatureString == [none |-> TRUE]

\* The value of --validation_scoring: a str, or None.
ScoringString(s) == [str |-> s]
NoScoringString == [none |-> TRUE]

\* The scorers that main makes from args.validation_scoring (lines 295-301):
\* 'CIDEr' when one of the names is 'cider'; the other names add nothing.
RequestedScorers(args) ==
    IF args.validation_scoring = NoScoringString THEN {}
    ELSE LET names == split(args.validation_scoring.str, ",") IN
         { "CIDEr" : j \in { h \in 1..Len(names) : strip(lower(names[h])) = <<"cider">> } }

\* The namedtuple Features.
Features(external, internal) == [external |-> external, internal |-> internal]

\* A vocabulary argument: --vocab's string, a Vocabulary object, or None.
VocabString(s) == [kind |-> "str", of |-> s]
Vocabulary(dataset) == [kind |-> "Vocabulary", of |-> dataset]
NoVocab == [kind |-> "None", of |-> ""]

\* A model name: one given with --model_name, or the tuple of values that
\* get_model_name formats into one.
GivenName(s) == [given |-> s, derived |-> << >>]
DerivedName(t) == [given |-> "", derived |-> t]

\* Paths under args.model_path.  in = "dir": <model_path>/<name>/<tail><num><ext>,
\* a file of the model's directory; in = "root": <model_path>/<name><tail><ext>,
\* a file beside the directory whose name begins with the model's name.
CheckpointPath(name, n) ==
    [in |-> "dir", name |-> name, tail |-> <<"ep">>, num |-> n, ext |-> ".model"]
StatsPath(name, json_name) ==
    [in |-> "dir", name |-> name, tail |-> json_name, num |-> 0, ext |-> ".json"]
BesidePath(name, tail) ==
    [in |-> "root", name |-> name, tail |-> tail, num |-> 0, ext |-> ".model"]
NoPath == [in |-> "none", name |-> GivenName(""), tail |-> << >>, num |-> 0, ext |-> ""]

\* os.path.split(os.path.dirname(path))[-1]
DirName(path) == path.name

\* `if x:` on a number or None
Truthy(x) == x # NoneInt /\ x # 0

Max(S) == CHOOSE m \in S : \A n \in S : n <= m

\* ModelParams._get_param
_get_param(d, param, none, default) ==
    IF param \notin DOMAIN d \/ d[param] = none THEN default ELSE d[param]

\* ModelParams._get_features
_get_features(d, param, default) ==
    LET p == _get_param(d, param, NoFeatureString, default) IN
    IF "internal" \in DOMAIN p
    THEN p
    ELSE LET features == IF p.str # << >> THEN split(p.str, ",") ELSE << >>
         IN  Features(SelectSeq(features, LAMBDA fn : splitext(fn)[2] # << >>),
                      SelectSeq(features, LAMBDA fn : splitext(fn)[2] = << >>))

\* ModelParams.__init__
ModelParams(d) ==
    [ embed_size |-> _get_param(d, "embed_size", NoneInt, 256),
      hidden_size |-> _get_param(d, "hidden_size", NoneInt, 512),
      num_layers |-> _get_param(d, "num_layers", NoneInt, 1),
      batch_size |-> _get_param(d, "batch_size", NoneInt, 128),
      dropout |-> _get_param(d, "dropout", NoneInt, 0),
      learning_rate |-> _get_param(d, "learning_rate", NoneInt, default_lr),
      features |-> _get_features(d, "features",
                                 FeatureString(<<FeatureName("resnet152", "")>>)),
      persist_features |-> _get_features(d, "persist_features", FeatureString(<< >>)),
      encoder_dropout |-> _get_param(d, "encoder_dropout", NoneInt, 0),
      attention |-> _get_param(d, "attention", NoneStr, NoneStr),
      vocab |-> _get_param(d, "vocab", NoVocab, NoVocab) ]

\* ModelParams.fromargs
fromargs(args) == ModelParams(args)

\* ModelParams.update_ext_features
update_ext_features(params, ef) ==
    [params EXCEPT !.features = [@ EXCEPT !.external = ef]]

\* ModelParams.has_persist_features
has_persist_features(params) ==
    Len(params.persist_features.internal) > 0 \/ Len(params.persist_features.external) > 0

\* feats_to_str: the internal names, then the external files' base names
\* without extension, joined by "+".
feats_to_str(feats) ==
    join("+", feats.internal
              \o [ j \in 1..Len(feats.external) |->
                        splitext(basename(feats.external[j]))[1] ])

\* get_model_name
get_model_name(args, params) ==
    IF args.model_name # NoneStr THEN GivenName(args.model_name)
    ELSE IF args.load_model # NoPath THEN DirName(args.load_model)
    ELSE DerivedName(<< args.model_basename, params.embed_size, params.hidden_size,
                        params.num_layers, params.batch_size, args.optimizer,
                        params.learning_rate, args.weight_decay, params.dropout,
                        params.encoder_dropout,
                        IF has_persist_features(params)
                        THEN <<feats_to_str(params.features),
                               feats_to_str(params.persist_features)>>
                        ELSE <<feats_to_str(params.features)>> >>)

\* glob.glob(full_path_prefix + '*.model'): the paths that are the prefix, then
\* characters other than '/', then '.model'.  A file of the model's directory
\* has a '/' after the prefix.
glob(paths, name) ==
    { f \in paths : f.in = "root" /\ f.name = name /\ f.ext = ".model" }

\* re.compile(full_path_prefix + '/ep([0-9]*).model').match(file)
re_match(file, name) ==
    file.in = "dir" /\ file.name = name /\ file.tail = <<"ep">> /\ file.ext = ".model"

\* find_matching_model, on the paths that exist under args.model_path
find_matching_model(args, params, paths) ==
    LET model_name == get_model_name(args, params)
        matching_files == glob(paths, model_name)
        last_epoch == Max({0} \cup { file.num : file \in
                                      { f \in matching_files : re_match(f, model_name) } })
    IN  IF last_epoch # 0 THEN CheckpointPath(model_name, last_epoch) ELSE NoPath

\* stats_filename
stats_filename(args, params, postfix) ==
    StatsPath(get_model_name(args, params),
              IF postfix = NoneStr THEN <<"train_stats">> ELSE <<"train_stats", postfix>>)

\* A dict with insertion order: a sequence of <<key, value>>.  d[key] = value
\* replaces the value of a key already there, or adds the key at the end.
DictSet(d, key, value) ==
    IF \E j \in 1..Len(d) : d[j][1] = key
    THEN [ j \in 1..Len(d) |-> IF d[j][1] = key THEN <<key, value>> ELSE d[j] ]
    ELSE Append(d, <<key, value>>)

\* A key of all_stats: what json.load gives (a str) and what main sets (an int).
StrKey(n) == [type |-> "str", n |-> n]
IntKey(n) == [type |-> "int", n |-> n]

\* json.dump: the entries in order, every key written as a string.
json_dump(d) == [ j \in 1..Len(d) |-> <<d[j][1].n, d[j][2]>> ]

\* json.load: the entries in order into a dict with str keys, a repeated key
\* keeping its last value.
RECURSIVE json_load_from(_, _, _)
json_load_from(text, j, d) ==
    IF j > Len(text) THEN d
    ELSE json_load_from(text, j + 1, DictSet(d, StrKey(text[j][1]), text[j][2]))

json_load(text) == json_load_from(text, 1, << >>)

\* init_stats, on the stats files that exist
init_stats(args, params, postfix, files) ==
    LET filename == stats_filename(args, params, postfix) IN
    IF filename \in DOMAIN files THEN json_load(files[filename]) ELSE << >>

\* save_model's state dict with the epoch counted from 0 in it.
SavedState_from_zero(params, weights, optimizer, epoch, vocab, decoder_class) ==
    [ epoch |-> epoch,
      encoder |-> weights,
      decoder |-> [layout |-> decoder_class, values |-> weights],
      optimizer |-> optimizer,
      embed_size |-> params.embed_size,
      hidden_size |-> params.hidden_size,
      num_layers |-> params.num_layers,
      batch_size |-> params.batch_size,
      learning_rate |-> params.learning_rate,
      dropout |-> params.dropout,
      encoder_dropout |-> params.encoder_dropout,
      features |-> params.features,
      persist_features |-> params.persist_features,
      attention |-> params.attention,
      vocab |-> vocab ]

\* The state dict save_model builds; decoder.state_dict() has the parameter
\* names of the decoder's class and their values.
SavedState(params, weights, optimizer, epoch, vocab, decoder_class) ==
    [ epoch |-> epoch + 1,
      encoder |-> weights,
      decoder |-> [layout |-> decoder_class, values |-> weights],
      optimizer |-> optimizer,
      embed_size |-> params.embed_size,
      hidden_size |-> params.hidden_size,
      num_layers |-> params.num_layers,
      batch_size |-> params.batch_size,
      learning_rate |-> params.learning_rate,
      dropout |-> params.dropout,
      encoder_dropout |-> params.encoder_dropout,
      features |-> params.features,
      persist_features |-> params.persist_features,
      attention |-> params.attention,
      vocab |-> vocab ]

\* `state = None`
NoState == [none |-> TRUE]

\* main, `if args.load_model:` (lines 343-354): the parameters of the run
\* after the checkpoint is read.
LoadedParams(params, state) ==
    LET external_features == params.features.external
        loaded == ModelParams(state)
    IN  IF Len(external_features) > 0 /\ loaded.features.external # external_features
        THEN update_ext_features(loaded, external_features)
        ELSE loaded

\* get_vocab: the vocabulary generated from the training dataset.
get_vocab(args) == Vocabulary(args.dataset)

\* What a forward call of the run's model ends in.  The attention decoders
\* take the feature grid from the external persistent features and raise
\* without them.
ForwardInRun(args, params) ==
    LET variant == IF args.attention = NoneStr THEN "plain" ELSE args.attention
        grid == Len(params.persist_features.external) > 0
    IN  IF variant # "plain" /\ ~grid THEN "raise"
        ELSE ForwardResult(variant, args.teacher_forcing, has_persist_features(params))

-----------------------------------------------------------------------------
(* train.py: main, run after run on one model directory *)

VARIABLES
    pc,             \* where main is: "stopped" (no process), "build", "epoch_head",
                    \* "batch", "epoch_end", "saved", "write_stats",
                    \* "validate_only", "validated"
    status,         \* how the latest process ended: "none", "running", "exit 0",
                    \* "exit 1", "exception"
    runs,           \* the number of processes started so far
    argv,           \* the command line of the latest process, as parsed
    args,           \* args, which main updates (load_model)
    data,           \* what the data loaders yield in this process
    params,         \* params
    vocab,          \* vocab
    state,          \* state: the checkpoint read, or NoState
    scorers,        \* scorers: the names of the scorers made
    start_epoch,    \* start_epoch
    epoch,          \* epoch
    i,              \* i, the index of the batch at hand
    iteration,      \* iteration
    teacher_p,      \* teacher_p, NoneInt before the first batch
    total_loss,     \* total_loss
    num_batches,    \* num_batches
    stats,          \* stats, a dict: a function on its keys
    all_stats,      \* all_stats, a dict in insertion order
    weights,        \* the number of optimizer steps that made the model's weights
    optimizer,      \* the optimizer's state
    grad,           \* the gradient buffers of the model's parameters
    applied,        \* the gradient buffers as the latest optimizer.step() read them
    scheduler,      \* the losses given to scheduler.step() so far, in order
    model_training, \* model.training: TRUE in training mode, FALSE after eval()
    forwards,       \* the calls made on the model by this process, each with the
                    \* mode it ran in: <<"train" | "valid" | "sample", model.training>>
    fs_model_path,  \* whether the directory args.model_path exists
    fs_models,      \* the checkpoint files: path -> state dict
    fs_stats,       \* the stats files: path -> the dumped entries
    fs_other        \* the other paths under args.model_path

setupVars == <<args, data, params, vocab, state, scorers, start_epoch>>

loopVars == <<epoch, i, iteration, teacher_p, total_loss, num_batches, stats>>

learnVars == <<weights, optimizer, grad, applied, scheduler, model_training, forwards>>

fsVars == <<fs_model_path, fs_models, fs_stats, fs_other>>

trainVars == <<pc, status, runs, argv, setupVars, loopVars, learnVars, all_stats, fsVars>>

\* Gradient buffers: their value, the batches whose losses were backpropagated
\* into them since they were last zeroed, and the calls made on them in the
\* batch at hand.  NoGrad: the buffers of a model that has not been trained.
NoGrad == [value |-> 0, from |-> {}, ops |-> << >>]

\* model.zero_grad() that leaves the buffers as they are.
zero_grad_kept(g) == [g EXCEPT !.ops = Append(@, "zero_grad")]

\* model.zero_grad()
zero_grad(g) == [value |-> 0, from |-> {}, ops |-> Append(g.ops, "zero_grad")]

\* loss.backward(): the loss's gradient is added to the buffers.
backward(g, batch, loss_grad) ==
    [value |-> g.value + loss_grad, from |-> g.from \cup {batch},
     ops |-> Append(g.ops, "backward")]

\* clip_gradients: param.grad.data.clamp_(-grad_clip, grad_clip)
clip_gradients(g, grad_clip) ==
    [g EXCEPT !.value = IF @ > grad_clip THEN grad_clip
                        ELSE IF @ < 0 - grad_clip THEN 0 - grad_clip ELSE @,
              !.ops = Append(@, "clip_gradients")]

\* optimizer.step() that leaves no trace of its call.
step_unrecorded(g) == g

\* optimizer.step(): reads the buffers.
step(g) == [g EXCEPT !.ops = Append(@, "step")]

\* The parser's defaults (no --dataset, no --vocab).
DefaultArgs ==
    [ dataset |-> NoneStr, load_model |-> NoPath, model_name |-> NoneStr,
      model_basename |-> "model", resume |-> FALSE, vocab |-> NoVocab,
      features |-> FeatureString(<<FeatureName("resnet152", "")>>),
      persist_features |-> NoFeatureString, attention |-> NoneStr,
      regularize_attn |-> FALSE, embed_size |-> 256, hidden_size |-> 512,
      num_layers |-> 1, dropout |-> 0, encoder_dropout |-> 0, force_epoch |-> 0,
      num_epochs |-> 5, num_batches |-> 0, batch_size |-> 128,
      learning_rate |-> NoneInt, grad_clip |-> NoneInt, validate |-> NoneStr,
      validation_step |-> 1, validation_scoring |-> NoScoringString,
      validate_only |-> FALSE, optimizer |-> "rmsprop", weight_decay |-> 0,
      lr_scheduler |-> FALSE, teacher_forcing |-> "always",
      teacher_forcing_k |-> 6500, teacher_forcing_beta |-> 1 ]

\* A command line that names a training dataset and a vocabulary.
TrainingArgs == [DefaultArgs EXCEPT !.dataset = "coco", !.vocab = VocabString("AUTO")]

\* What a process finds around it: the lengths of the training and validation
\* loaders, whether the first epoch's batches hold words, the loss values the
\* batches can give, and whether the module eval.cider can be imported.
NoData ==
    [loader_len |-> 0, valid_len |-> 0, has_words |-> FALSE, loss_values |-> {},
     cider |-> FALSE]

\* No process: the variables of main hold nothing.
NoProcess ==
    /\ args = DefaultArgs
    /\ data = NoData
    /\ params = fromargs(DefaultArgs)
    /\ vocab = NoVocab
    /\ state = NoState
    /\ scorers = {}
    /\ start_epoch = 0
    /\ epoch = 0
    /\ i = 0
    /\ iteration = 0
    /\ teacher_p = NoneInt
    /\ total_loss = 0
    /\ num_batches = 0
    /\ stats = << >>
    /\ all_stats = << >>
    /\ weights = 0
    /\ optimizer = [lr |-> default_lr]
    /\ grad = NoGrad
    /\ applied = NoGrad
    /\ scheduler = << >>
    /\ model_training = TRUE
    /\ forwards = {}

\* The process ends with exit status or exception s: nothing of it is left.
Stopped(s) ==
    /\ pc' = "stopped"
    /\ status' = s
    /\ args' = DefaultArgs
    /\ data' = NoData
    /\ params' = fromargs(DefaultArgs)
    /\ vocab' = NoVocab
    /\ state' = NoState
    /\ scorers' = {}
    /\ start_epoch' = 0
    /\ epoch' = 0
    /\ i' = 0
    /\ iteration' = 0
    /\ teacher_p' = NoneInt
    /\ total_loss' = 0
    /\ num_batches' = 0
    /\ stats' = << >>
    /\ all_stats' = << >>
    /\ weights' = 0
    /\ optimizer' = [lr |-> default_lr]
    /\ grad' = NoGrad
    /\ applied' = NoGrad
    /\ scheduler' = << >>
    /\ model_training' = TRUE
    /\ forwards' = {}

\* Before the program is ever run: an empty disk.
IdleTrain ==
    /\ pc = "stopped"
    /\ status = "none"
    /\ runs = 0
    /\ argv = DefaultArgs
    /\ NoProcess
    /\ fs_model_path = FALSE
    /\ fs_models = << >>
    /\ fs_stats = << >>
    /\ fs_other = {}

\* As IdleTrain, with or without a file <model_path>/m1-best.model beside the
\* directory of the model named m1.
InitResume ==
    /\ pc = "stopped"
    /\ status = "none"
    /\ runs = 0
    /\ argv = DefaultArgs
    /\ NoProcess
    /\ fs_model_path \in BOOLEAN
    /\ fs_models = << >>
    /\ fs_stats = << >>
    /\ fs_other \in {{}, {BesidePath(GivenName("m1"), <<"-best">>)}}
    /\ fs_other # {} => fs_model_path

\* The loss values the batches of the focused runs can give.
LossSet == {Scale, 3 * Scale}

\* (attention, teacher_forcing, persist_features) of the runs of SpecTrain.
RunConfigs ==
    { <<NoneStr, "always", NoFeatureString>>,
      <<NoneStr, "sampled", NoFeatureString>>,
      <<NoneStr, "bogus", NoFeatureString>>,
      <<"spatial", "bogus", FeatureString(<<FeatureName("grid", "npy")>>)>> }

\* The runs of SpecTrain: fresh trainings that differ in the loop's settings and
\* in what the loaders yield.
LoopInputs ==
    { [ argv |-> [TrainingArgs EXCEPT !.num_epochs = ne, !.num_batches = nb,
                                      !.grad_clip = gc, !.lr_scheduler = ls,
                                      !.validate = v, !.validation_step = vs,
                                      !.attention = c[1], !.teacher_forcing = c[2],
                                      !.persist_features = c[3]],
        data |-> [loader_len |-> n, valid_len |-> 1, has_words |-> w,
                  loss_values |-> LossSet, cider |-> TRUE] ] :
        ne \in 1..MaxEpochs, nb \in {0, 1}, v \in {NoneStr, "coco:val"},
        vs \in {1, 2}, c \in RunConfigs, n \in 0..MaxLoader, w \in BOOLEAN,
        gc \in {NoneInt, 2 * Scale}, ls \in BOOLEAN }

\* The command lines with a configuration error that main detects, in the order
\* of its checks: --lr_scheduler without --validate, no --dataset,
\* --validate_only without --load_model, no --vocab, an invalid --attention and
\* an unknown --optimizer.
ConfigErrors ==
    { [TrainingArgs EXCEPT !.lr_scheduler = TRUE],
      [TrainingArgs EXCEPT !.dataset = NoneStr],
      [TrainingArgs EXCEPT !.validate_only = TRUE, !.validate = "coco:val"],
      [TrainingArgs EXCEPT !.vocab = NoVocab],
      [TrainingArgs EXCEPT !.attention = "bogus"],
      [TrainingArgs EXCEPT !.optimizer = "sgd"] }

\* The runs of a command line with a configuration error.
ConfigErrorInputs == { [argv |-> a, data |-> NoData] : a \in ConfigErrors }

\* The values of --validation_scoring tried.
ScoringArgs ==
    { NoScoringString,
      ScoringString(<<"cider">>),
      ScoringString(<<"bleu">>),
      ScoringString(<<"CIDEr", ",", " ", "bleu">>) }

\* Runs of one epoch of one batch with validation, that differ in the scorers
\* asked for and in whether eval.cider can be imported.
ScoringInputs ==
    { [ argv |-> [TrainingArgs EXCEPT !.num_epochs = 1, !.validate = "coco:val",
                                      !.validation_scoring = s],
        data |-> [loader_len |-> 1, valid_len |-> 1, has_words |-> TRUE,
                  loss_values |-> {Scale}, cider |-> c] ] :
        s \in ScoringArgs, c \in BOOLEAN }

\* Two settings of the model's hyperparameters: the defaults and others.
Profiles ==
    { [embed_size |-> 256, hidden_size |-> 512, num_layers |-> 1, batch_size |-> 128,
       dropout |-> 0, encoder_dropout |-> 0],
      [embed_size |-> 300, hidden_size |-> 600, num_layers |-> 2, batch_size |-> 64,
       dropout |-> Scale \div 2, encoder_dropout |-> Scale \div 4] }

\* The values of <<--features, --persist_features>> tried: the defaults, and
\* two with an external file in each.
FeatureArgs ==
    { <<FeatureString(<<FeatureName("resnet152", "")>>), NoFeatureString>>,
      <<FeatureString(<<FeatureName("resnet152", ""), FeatureName("a", "npy")>>),
        FeatureString(<<FeatureName("pa", "npy")>>)>>,
      <<FeatureString(<<FeatureName("resnet152", ""), FeatureName("b", "npy")>>),
        FeatureString(<<FeatureName("pb", "npy")>>)>> }

\* The runs of SpecResume: trainings of one batch an epoch that differ in how
\* they start (--resume, --load_model of a checkpoint on the disk,
\* --model_name) and in the parameters given.
ResumeInputs(checkpoints) ==
    { [ argv |-> [TrainingArgs EXCEPT !.resume = r, !.load_model = lm,
                                      !.model_name = mn, !.learning_rate = lr,
                                      !.features = f[1], !.persist_features = f[2],
                                      !.num_epochs = ne,
                                      !.embed_size = p.embed_size,
                                      !.hidden_size = p.hidden_size,
                                      !.num_layers = p.num_layers,
                                      !.batch_size = p.batch_size,
                                      !.dropout = p.dropout,
                                      !.encoder_dropout = p.encoder_dropout],
        data |-> [loader_len |-> 1, valid_len |-> 0, has_words |-> TRUE,
                  loss_values |-> {Scale}, cider |-> TRUE] ] :
        r \in BOOLEAN, lm \in {NoPath} \cup checkpoints, mn \in {NoneStr, "m1"},
        lr \in {NoneInt, 5}, f \in FeatureArgs, ne \in 1..MaxEpochs, p \in Profiles }

\* main from its first line to the data loaders (lines 272-398), for a command
\* line and loaders drawn from Inputs.
Main(Inputs, max_runs) ==
    /\ pc = "stopped"
    /\ runs < max_runs
    /\ \E input \in Inputs :
        LET a == input.argv
            params0 == fromargs(a)
            paths == DOMAIN fs_models \cup DOMAIN fs_stats \cup fs_other
            resumed == IF a.resume
                       THEN [a EXCEPT !.load_model = find_matching_model(a, params0, paths)]
                       ELSE a
            loading == resumed.load_model # NoPath
            loaded_state == fs_models[resumed.load_model]
            params1 == IF loading THEN LoadedParams(params0, loaded_state) ELSE params0
            saved_vocab == loading /\ params1.vocab # NoVocab
        IN
        /\ runs' = runs + 1
        /\ argv' = a
        /\ UNCHANGED <<fs_models, fs_stats, fs_other>>
        /\ IF a.validate = NoneStr /\ a.lr_scheduler
           THEN Stopped("exit 1") /\ UNCHANGED fs_model_path
           ELSE /\ fs_model_path' = TRUE
                /\ IF RequestedScorers(a) # {} /\ ~input.data.cider
                   THEN Stopped("exception")
                   ELSE IF (a.dataset = NoneStr /\ ~a.validate_only)
                           \/ (a.validate_only /\ a.load_model = NoPath)
                   THEN Stopped("exit 1")
                   ELSE IF loading /\ resumed.load_model \notin DOMAIN fs_models
                   THEN Stopped("exception")
                   ELSE IF ~saved_vocab /\ a.vocab = NoVocab
                   THEN Stopped("exit 1")
                   ELSE /\ pc' = "build"
                        /\ status' = "running"
                        /\ args' = resumed
                        /\ data' = input.data
                        /\ params' = params1
                        /\ vocab' = IF saved_vocab THEN params1.vocab ELSE get_vocab(resumed)
                        /\ state' = IF loading THEN loaded_state ELSE NoState
                        /\ scorers' = RequestedScorers(a)
                        /\ start_epoch' = IF a.force_epoch # 0 THEN a.force_epoch - 1
                                          ELSE IF loading THEN loaded_state.epoch
                                          ELSE 0
                        /\ weights' = 0
                        /\ optimizer' = [lr |-> default_lr]
                        /\ grad' = NoGrad
                        /\ applied' = NoGrad
                        /\ scheduler' = << >>
                        /\ model_training' = TRUE
                        /\ forwards' = {}
                        /\ all_stats' = << >>
                        /\ stats' = << >>
                        /\ epoch' = 0
                        /\ i' = 0
                        /\ iteration' = 0
                        /\ teacher_p' = NoneInt
                        /\ total_loss' = 0
                        /\ num_batches' = 0

\* nn.Module.load_state_dict with a state dict of any layout accepted.
load_state_dict_lenient(decoder_class, state_dict) == TRUE

\* nn.Module.load_state_dict (strict) of a decoder: the parameter names of the
\* state dict have to be those of the decoder's class, and DecoderRNN,
\* SpatialAttentionDecoderRNN and SoftAttentionDecoderRNN differ in them
\* (lstm; init_h, init_c, lstm_step, attention; f_beta besides).
load_state_dict(decoder_class, state_dict) == state_dict.layout = decoder_class

\* main from the choice of the model class to the epoch loop (lines 400-461):
\* the model is built and takes the checkpoint's weights, the optimizer is made
\* and takes the checkpoint's state, the learning rate is set, and the stats
\* are read.
Build ==
    /\ pc = "build"
    /\ LET loading == args.load_model # NoPath
           stats_postfix == IF args.validate_only THEN args.validate ELSE NoneStr
           params2 == [params EXCEPT !.learning_rate =
                            IF Truthy(args.learning_rate) THEN args.learning_rate
                            ELSE default_lr]
           loaded_optimizer == IF loading THEN state.optimizer ELSE [lr |-> default_lr]
       IN  IF args.attention \notin {NoneStr, "spatial", "soft"}
           THEN Stopped("exit 1")
           ELSE IF loading /\ ~load_state_dict(args.attention, state.decoder)
           THEN Stopped("exception")
           ELSE IF args.optimizer \notin {"adam", "rmsprop"}
           THEN Stopped("exit 1")
           ELSE /\ weights' = IF loading THEN state.decoder.values ELSE 0
                /\ optimizer' = IF Truthy(args.learning_rate)
                                THEN [loaded_optimizer EXCEPT !.lr = args.learning_rate]
                                ELSE loaded_optimizer
                /\ params' = params2
                /\ all_stats' = IF loading
                                THEN init_stats(args, params2, stats_postfix, fs_stats)
                                ELSE << >>
                /\ teacher_p' = IF args.validate_only THEN Scale ELSE NoneInt
                /\ IF args.validate_only
                   THEN epoch' = start_epoch - 1 /\ pc' = "validate_only"
                   ELSE epoch' = start_epoch /\ pc' = "epoch_head"
                /\ UNCHANGED <<status, args, data, vocab, state, scorers, start_epoch,
                               i, iteration, total_loss, num_batches, stats, grad,
                               applied, scheduler, model_training, forwards>>
    /\ UNCHANGED <<runs, argv, fsVars>>

\* The head of `for epoch in range(start_epoch, args.num_epochs)` (lines
\* 476-483): the next epoch begins, up to the first batch of the loader or, when
\* it yields none, the end of the batch loop; after the last epoch main returns.
EpochHead ==
    /\ pc = "epoch_head"
    /\ IF epoch < args.num_epochs
       THEN /\ stats' = << >>
            /\ total_loss' = 0
            /\ num_batches' = 0
            /\ i' = 0
            /\ pc' = IF data.loader_len = 0 THEN "epoch_end" ELSE "batch"
            /\ UNCHANGED <<status, setupVars, epoch, iteration, teacher_p, learnVars,
                           all_stats>>
       ELSE Stopped("exit 0")
    /\ UNCHANGED <<runs, argv, fsVars>>

\* One pass of the batch loop (lines 483-565): the teacher probability of the
\* iteration, the forward call, the loss, the optimizer step, and the cap.
TrainBatch ==
    /\ pc = "batch"
    /\ IF ForwardInRun(args, params) # "output"
       THEN Stopped("exception")
       ELSE \E loss \in data.loss_values :
            /\ iteration' = (epoch - start_epoch) * data.loader_len + i
            /\ teacher_p' = get_teacher_prob(args.teacher_forcing_k, iteration',
                                             args.teacher_forcing_beta)
            /\ LET zeroed == zero_grad([grad EXCEPT !.ops = << >>])
                   backpropagated == backward(zeroed, weights + 1, loss)
                   clipped == IF args.grad_clip # NoneInt
                              THEN clip_gradients(backpropagated, args.grad_clip)
                              ELSE backpropagated
               IN  grad' = step(clipped) /\ applied' = step(clipped)
            /\ weights' = weights + 1
            /\ forwards' = forwards \cup {<<"train", model_training>>}
            /\ total_loss' = total_loss + loss
            /\ num_batches' = num_batches + 1
            /\ IF i + 1 = args.num_batches \/ i + 1 = data.loader_len
               THEN pc' = "epoch_end" /\ i' = i
               ELSE pc' = "batch" /\ i' = i + 1
            /\ UNCHANGED <<status, setupVars, epoch, stats, optimizer, scheduler,
                           model_training, all_stats>>
    /\ UNCHANGED <<runs, argv, fsVars>>

\* After the batch loop (lines 567-572): the epoch's average loss, then
\* save_model.
SaveCheckpoint ==
    /\ pc = "epoch_end"
    /\ IF num_batches = 0
       THEN Stopped("exception") /\ UNCHANGED fs_models
       ELSE /\ stats' = ("training_loss" :> (total_loss \div num_batches)) @@ stats
            /\ fs_models' = (CheckpointPath(get_model_name(args, params), epoch + 1)
                                :> SavedState(params, weights, optimizer, epoch, vocab,
                                              args.attention))
                            @@ fs_models
            /\ pc' = "saved"
            /\ UNCHANGED <<status, setupVars, epoch, i, iteration, teacher_p, total_loss,
                           num_batches, learnVars, all_stats>>
    /\ UNCHANGED <<runs, argv, fs_model_path, fs_stats, fs_other>>

\* The scores a scorer can give.
ScoreSet == {Scale \div 2}

\* 'validation_' + score_name.lower()
StatsKey(score_name) == IF score_name = "CIDEr" THEN "validation_cider" ELSE score_name

\* model.train() that leaves the mode as it is.
train_skipped(mode) == mode

\* model.train() and model.eval(): the mode after the call.
train(mode) == TRUE
eval(mode) == FALSE

\* The calls do_validate makes on the model in the mode it is in: forward for
\* every batch, and sample when there are scorers.
ValidationCalls(mode, with_scorers) ==
    {<<"valid", mode>>} \cup (IF with_scorers # {} THEN {<<"sample", mode>>} ELSE {})

\* Line 583 with the epoch counted from 1.
ValidationDue_late(a, e) == a.validate # NoneStr /\ e % a.validation_step = 0

\* Line 583: whether do_validate is called at the end of epoch e.
ValidationDue(a, e) == a.validate # NoneStr /\ (e + 1) % a.validation_step = 0

\* After save_model (lines 574-588): the word statistics of the first epoch,
\* then do_validate when validation is due, and the scheduler's step.
Validate ==
    /\ pc = "saved"
    /\ IF epoch = 0 /\ ~data.has_words
       THEN Stopped("exception")
       ELSE IF args.validate = NoneStr
       THEN /\ pc' = "write_stats"
            /\ UNCHANGED <<status, setupVars, loopVars, learnVars, all_stats>>
       ELSE IF args.validation_step = 0
       THEN Stopped("exception")
       ELSE IF ~ValidationDue(args, epoch)
       THEN /\ pc' = "write_stats"
            /\ UNCHANGED <<status, setupVars, loopVars, learnVars, all_stats>>
       ELSE IF data.valid_len = 0 \/ ForwardInRun(args, params) # "output"
       THEN Stopped("exception")
       ELSE \E val_loss \in data.loss_values, score \in ScoreSet :
            /\ stats' = ("validation_loss" :> val_loss)
                            @@ [ key \in { StatsKey(name) : name \in scorers } |-> score ]
                            @@ stats
            /\ optimizer' \in IF args.lr_scheduler
                              THEN {optimizer, [optimizer EXCEPT !.lr = @ \div 10]}
                              ELSE {optimizer}
            /\ scheduler' = IF args.lr_scheduler THEN Append(scheduler, val_loss)
                            ELSE scheduler
            /\ forwards' = forwards \cup ValidationCalls(eval(model_training), scorers)
            /\ model_training' = train(eval(model_training))
            /\ pc' = "write_stats"
            /\ UNCHANGED <<status, setupVars, epoch, i, iteration, teacher_p, total_loss,
                           num_batches, weights, grad, applied, all_stats>>
    /\ UNCHANGED <<runs, argv, fsVars>>

\* The end of an epoch (lines 590-591): the epoch's stats enter all_stats under
\* the int key epoch + 1, and save_stats rewrites the stats file.
WriteStats ==
    /\ pc = "write_stats"
    /\ all_stats' = DictSet(all_stats, IntKey(epoch + 1), stats)
    /\ fs_stats' = (stats_filename(args, params, NoneStr) :> json_dump(all_stats'))
                   @@ fs_stats
    /\ epoch' = epoch + 1
    /\ pc' = "epoch_head"
    /\ UNCHANGED <<status, setupVars, i, iteration, teacher_p, total_loss, num_batches,
                   stats, learnVars>>
    /\ UNCHANGED <<runs, argv, fs_model_path, fs_models, fs_other>>

\* The --validate_only branch (lines 463-471): do_validate on the loaded model,
\* with an empty stats and epoch = start_epoch - 1.
ValidateOnly ==
    /\ pc = "validate_only"
    /\ IF args.validate = NoneStr \/ data.valid_len = 0
            \/ ForwardInRun(args, params) # "output"
       THEN Stopped("exception")
       ELSE \E val_loss \in data.loss_values, score \in ScoreSet :
            /\ stats' = ("validation_loss" :> val_loss)
                            @@ [ key \in { StatsKey(name) : name \in scorers } |-> score ]
            /\ forwards' = forwards \cup ValidationCalls(eval(model_training), scorers)
            /\ model_training' = train(eval(model_training))
            /\ pc' = "validated"
            /\ UNCHANGED <<status, setupVars, epoch, i, iteration, teacher_p, total_loss,
                           num_batches, weights, optimizer, grad, applied, scheduler,
                           all_stats>>
    /\ UNCHANGED <<runs, argv, fsVars>>

\* The end of the --validate_only branch (lines 473-474): the stats enter
\* all_stats, save_stats writes the file named after the validation set, and
\* main returns.
ValidateOnlyWrite ==
    /\ pc = "validated"
    /\ fs_stats' = (stats_filename(args, params, args.validate)
                        :> json_dump(DictSet(all_stats, IntKey(epoch + 1), stats)))
                   @@ fs_stats
    /\ Stopped("exit 0")
    /\ UNCHANGED <<runs, argv, fs_model_path, fs_models, fs_other>>

\* The runs of SpecValidate: trainings with a validation set and runs of
\* --validate_only, on nothing or on a checkpoint of the disk, with or without
\* --attention spatial; all name a feature grid as persistent features.
ValidationInputs(checkpoints) ==
    { [ argv |-> [TrainingArgs EXCEPT !.validate = "coco:val", !.validate_only = vo,
                                      !.load_model = lm, !.num_epochs = ne,
                                      !.validation_step = vs, !.lr_scheduler = ls,
                                      !.attention = at, !.validation_scoring = s,
                                      !.persist_features =
                                            FeatureString(<<FeatureName("grid", "npy")>>)],
        data |-> [loader_len |-> 1, valid_len |-> n, has_words |-> TRUE,
                  loss_values |-> {Scale}, cider |-> TRUE] ] :
        vo \in BOOLEAN, lm \in {NoPath} \cup checkpoints, ne \in 1..MaxEpochs,
        vs \in {1, 2}, ls \in BOOLEAN, n \in {0, 1}, at \in {NoneStr, "spatial"},
        s \in {NoScoringString, ScoringString(<<"cider">>)} }

-----------------------------------------------------------------------------
(* model.py: ModelParams._get_features, on one dict *)

VARIABLES
    gf_d,           \* d, the dict that ModelParams is made from
    gf_param,       \* the parameter read: "features" or "persist_features"
    gf_pc,          \* "idle", "call" before the call, "return" after it
    gf_result       \* the Features that the call returned, None before

featVars == <<gf_d, gf_param, gf_pc, gf_result>>

\* The longest feature string tried, in units, and the units it is made of.
MaxSpecLen == 4

SpecUnits == {"a", ",", ".", "/"}

\* The example of --features' help text, with the file of the scenario.
ExampleSpec == <<"resnet152", ",", "feat", ".", "npy">>

\* The values d[param] can hold: None, a str, or a Features tuple.
FeatureValues ==
    {NoFeatureString}
        \cup { [str |-> t] : t \in UNION { [1..n -> SpecUnits] : n \in 0..MaxSpecLen } }
        \cup { [str |-> ExampleSpec] }
        \cup { Features(<< >>, << >>),
               Features(<<FeatureName("a", "npy")>>, <<FeatureName("resnet152", "")>>),
               Features(<<FeatureName("a", "")>>, <<FeatureName("b", "c")>>) }

IdleFeatures ==
    /\ gf_d = << >>
    /\ gf_param = "features"
    /\ gf_pc = "idle"
    /\ gf_result = NoFeatureString

\* A dict without the parameter, or with one of FeatureValues under it.
InitFeatures ==
    /\ gf_param \in {"features", "persist_features"}
    /\ gf_d \in {<< >>} \cup { (gf_param :> v) : v \in FeatureValues }
    /\ gf_pc = "call"
    /\ gf_result = NoFeatureString

\* ModelParams(d), of which the parameter's Features are kept.
GetFeatures ==
    /\ gf_pc = "call"
    /\ gf_result' = ModelParams(gf_d)[gf_param]
    /\ gf_pc' = "return"
    /\ UNCHANGED <<gf_d, gf_param>>

-----------------------------------------------------------------------------
(* model.py: sample, called twice on one model *)

VARIABLES
    sm_variant,     \* "plain" (EncoderDecoder) or "spatial"
    sm_training,    \* nn.Module.training: TRUE in train mode, FALSE after eval()
    sm_dropout,     \* whether params.encoder_dropout > 0
    sm_w,           \* the model's parameters
    sm_running,     \* the running statistics of encoder.bn
    sm_images,      \* image_tensor: one image per example
    sm_persist,     \* whether persist_features is a tensor (TRUE) or None
    sm_max,         \* max_seq_length
    sm_pc,          \* "idle", "call", "loop", "return", "raise"
    sm_call,        \* which call this is: 1 or 2
    sm_i,           \* the loop's index (i, t)
    sm_states,      \* the recurrent state of each example
    sm_inputs,      \* inputs: the next input of each example
    sm_ids,         \* sampled_ids: a list of one vector of ids per step
    sm_logits,      \* the outputs (logits) of each step so far
    sm_fed,         \* the inputs given to the recurrent step at each step so far
    sm_returned     \* what the calls made so far returned

sampleVars == <<sm_variant, sm_training, sm_dropout, sm_w, sm_running, sm_images,
                sm_persist, sm_max, sm_pc, sm_call, sm_i, sm_states, sm_inputs,
                sm_ids, sm_logits, sm_fed, sm_returned>>

\* The largest max_seq_length, the largest batch, the number of words of the
\* vocabulary and the number of values a unit of the network takes.
MaxSeq == 3
MaxSampleBatch == 2
VocabSize == 3
UnitValues == 3

\* The id of <end>: the last word of the vocabulary.
EndId == VocabSize - 1

\* The parameters tried: (encoder weight, decoder weight).
WeightSet == {<<1, 1>>, <<1, 2>>, <<2, 1>>}

\* nn.Dropout, with the mask drawn when it is active.
Dropout_always(x, training, p, mask) == IF p THEN (x + mask) % UnitValues ELSE x

\* nn.Dropout: the identity in evaluation mode and when p = 0.
Dropout(x, training, p, mask) ==
    IF training /\ p THEN (x + mask) % UnitValues ELSE x

\* nn.BatchNorm1d: normalises by the batch's statistics in train mode and by the
\* running statistics in evaluation mode.
BatchNorm(x, training, batch_stat, running) ==
    (x + (IF training THEN batch_stat ELSE running)) % UnitValues

RECURSIVE SumSeq(_)
SumSeq(s) == IF Len(s) = 0 THEN 0 ELSE s[1] + SumSeq(Tail(s))

\* EncoderCNN.forward on a batch: linear, dropout, batch normalization.
EncoderForward(images, w, training, p, masks, running) ==
    LET lin == [e \in 1..Len(images) |-> (images[e] * w[1]) % UnitValues]
        dropped == [e \in 1..Len(images) |-> Dropout(lin[e], training, p, masks[e])]
    IN  [e \in 1..Len(images) |->
            BatchNorm(dropped[e], training, SumSeq(dropped) % UnitValues, running)]

\* The running statistics after EncoderCNN.forward: updated in train mode only.
RunningAfter(images, w, training, running) ==
    IF training THEN (running + SumSeq(images) * w[1] + 1) % UnitValues ELSE running

\* One step of the LSTM on one example.
lstm(input, h, w) == (input + h * w[2] + 1) % UnitValues

\* self.linear: the logits over the vocabulary.
linear(h, w) == [v \in 0..(VocabSize - 1) |-> (h * (v + 1) + w[1] * v) % UnitValues]

\* outputs.max(1): the index of the largest logit, the first of equals.
max_index(logits) ==
    CHOOSE v \in DOMAIN logits :
        /\ \A u \in DOMAIN logits : logits[u] <= logits[v]
        /\ \A u \in DOMAIN logits : u < v => logits[u] < logits[v]

\* self.embed
embed(token) == token + 1

\* The feature grid of an image, read from the persistent external features.
Grid(image) == (image + 1) % UnitValues

\* SpatialAttention: the context for hidden state h.
attention(grid, h, w) == (grid * w[2] + h) % UnitValues

\* torch.stack(sampled_ids, 1): one row of ids per example.
stack(ids, batch) == [e \in 1..batch |-> [t \in 1..Len(ids) |-> ids[t][e]]]

IdleSample ==
    /\ sm_variant = "plain"
    /\ sm_training = FALSE
    /\ sm_dropout = FALSE
    /\ sm_w = <<1, 1>>
    /\ sm_running = 0
    /\ sm_images = <<0>>
    /\ sm_persist = FALSE
    /\ sm_max = 0
    /\ sm_pc = "idle"
    /\ sm_call = 0
    /\ sm_i = 0
    /\ sm_states = << >>
    /\ sm_inputs = << >>
    /\ sm_ids = << >>
    /\ sm_logits = << >>
    /\ sm_fed = << >>
    /\ sm_returned = << >>

InitSample ==
    /\ sm_variant \in {"plain", "spatial"}
    /\ sm_training \in BOOLEAN
    /\ sm_dropout \in BOOLEAN
    /\ sm_w \in WeightSet
    /\ sm_running \in {0, 1}
    /\ sm_images \in UNION { [1..n -> {0, 1}] : n \in 1..MaxSampleBatch }
    /\ sm_persist \in BOOLEAN
    /\ sm_max \in 0..MaxSeq
    /\ sm_pc = "call"
    /\ sm_call = 1
    /\ sm_i = 0
    /\ sm_states = << >>
    /\ sm_inputs = << >>
    /\ sm_ids = << >>
    /\ sm_logits = << >>
    /\ sm_fed = << >>
    /\ sm_returned = << >>

sampleInputs == <<sm_variant, sm_training, sm_dropout, sm_w, sm_images, sm_persist, sm_max>>

\* EncoderDecoder.sample / SpatialAttentionEncoderDecoder.sample up to the
\* decoder's loop: the encoder's forward call, then the decoder's first inputs
\* and states.  The spatial decoder reads the grid from external_features and
\* raises when that is None.
SampleBegin ==
    /\ sm_pc = "call"
    /\ \E masks \in [1..Len(sm_images) -> {0, 1}] :
        LET features == EncoderForward(sm_images, sm_w, sm_training, sm_dropout,
                                       masks, sm_running)
        IN
        /\ sm_running' = RunningAfter(sm_images, sm_w, sm_training, sm_running)
        /\ IF sm_variant = "spatial" /\ ~sm_persist
           THEN /\ sm_pc' = "raise"
                /\ UNCHANGED <<sm_states, sm_inputs>>
           ELSE /\ sm_pc' = "loop"
                /\ sm_states' = [e \in 1..Len(sm_images) |->
                                    IF sm_variant = "spatial"
                                    THEN (Grid(sm_images[e]) * sm_w[2]) % UnitValues
                                    ELSE 0]
                /\ sm_inputs' = [e \in 1..Len(sm_images) |->
                                    IF sm_variant = "spatial" THEN Grid(sm_images[e])
                                    ELSE IF sm_persist
                                    THEN (features[e] + Grid(sm_images[e])) % UnitValues
                                    ELSE features[e]]
    /\ sm_i' = 0
    /\ sm_ids' = << >>
    /\ sm_logits' = << >>
    /\ sm_fed' = << >>
    /\ UNCHANGED <<sampleInputs, sm_call, sm_returned>>

\* One pass of `for i in range(max_seq_length)`: the recurrent step, the
\* logits, the largest logit's id appended to sampled_ids, and its embedding
\* made the next input.
SampleStep ==
    /\ sm_pc = "loop"
    /\ sm_i < sm_max
    /\ LET batch == 1..Len(sm_images)
           h == [e \in batch |-> lstm(sm_inputs[e], sm_states[e], sm_w)]
           outputs == [e \in batch |->
                          IF sm_variant = "spatial"
                          THEN linear((h[e] + attention(Grid(sm_images[e]), h[e], sm_w))
                                          % UnitValues, sm_w)
                          ELSE linear(h[e], sm_w)]
           predicted == [e \in batch |-> max_index(outputs[e])]
       IN  /\ sm_states' = h
           /\ sm_logits' = Append(sm_logits, outputs)
           /\ sm_fed' = Append(sm_fed, sm_inputs)
           /\ sm_ids' = Append(sm_ids, predicted)
           /\ sm_inputs' = [e \in batch |->
                               IF sm_variant = "plain" /\ sm_persist
                               THEN (embed(predicted[e]) + Grid(sm_images[e])) % UnitValues
                               ELSE embed(predicted[e])]
    /\ sm_i' = sm_i + 1
    /\ UNCHANGED <<sampleInputs, sm_running, sm_pc, sm_call, sm_returned>>

\* After the loop: torch.stack(sampled_ids, 1), which raises on an empty list,
\* and the return.
SampleReturn ==
    /\ sm_pc = "loop"
    /\ sm_i >= sm_max
    /\ IF Len(sm_ids) = 0
       THEN sm_pc' = "raise" /\ UNCHANGED sm_returned
       ELSE /\ sm_pc' = "return"
            /\ sm_returned' = Append(sm_returned, stack(sm_ids, Len(sm_images)))
    /\ UNCHANGED <<sampleInputs, sm_running, sm_call, sm_i, sm_states, sm_inputs,
                   sm_ids, sm_logits, sm_fed>>

\* The caller calls sample once more, with the same arguments.
SampleAgain ==
    /\ sm_pc = "return"
    /\ sm_call = 1
    /\ sm_call' = 2
    /\ sm_pc' = "call"
    /\ UNCHANGED <<sampleInputs, sm_running, sm_i, sm_states, sm_inputs, sm_ids,
                   sm_logits, sm_fed, sm_returned>>

-----------------------------------------------------------------------------
(* model.py: EncoderCNN.load_state_dict *)

VARIABLES
    sd_state_dict,  \* state_dict: (key, value) pairs in the dict's order
    sd_strict,      \* strict
    sd_pc,          \* "idle", "call", "fixed", "loaded", "raise"
    sd_round,       \* 1 for the first call, 2 for the call on the first's result
    sd_fixed,       \* fixed_state_dict
    sd_unexpected,  \* the keys of fixed_state_dict that the module does not have
    sd_loaded       \* the module's parameters that the call has set: key -> value

dictVars == <<sd_state_dict, sd_strict, sd_pc, sd_round, sd_fixed, sd_unexpected,
              sd_loaded>>

\* The largest number of entries of a state dict tried.
MaxKeys == 4

\* str.startswith
startswith(s, prefix) ==
    Len(s) >= Len(prefix) /\ SubSeq(s, 1, Len(prefix)) = prefix

\* 'resnet.' and 'extractors.0.extractor.'
LegacyPrefix == <<"resnet", ".">>
ExtractorPrefix == <<"extractors", ".", "0", ".", "extractor", ".">>

\* The key as it came.
fixed_key_kept(key) == key

\* The loop's body (lines 243-244): key[7:] is the key without 'resnet.'.
fixed_key(key) ==
    IF startswith(key, LegacyPrefix)
    THEN ExtractorPrefix \o SubSeq(key, Len(LegacyPrefix) + 1, Len(key))
    ELSE key

\* OrderedDict(pairs): a key that comes again keeps its place and takes the
\* later value.
RECURSIVE OrderedDict(_)
OrderedDict(pairs) ==
    IF Len(pairs) = 0 THEN << >>
    ELSE LET before == OrderedDict(SubSeq(pairs, 1, Len(pairs) - 1))
             last == pairs[Len(pairs)]
         IN  IF \E j \in 1..Len(before) : before[j][1] = last[1]
             THEN [ j \in 1..Len(before) |->
                        IF before[j][1] = last[1] THEN last ELSE before[j] ]
             ELSE Append(before, last)

\* The parameters of the two layouts of the backbone, and the keys of an
\* EncoderCNN with resnet152 as its first extractor.
BackboneParams == {<<"0", ".", "weight">>, <<"1", ".", "bias">>}

ModuleKeys ==
    { ExtractorPrefix \o r : r \in BackboneParams }
        \cup { <<"linear", ".", "weight">>, <<"bn", ".", "weight">> }

\* The keys a state dict is made of: both layouts' keys and one key that has
\* resnet. inside it, not at its start.
StateKeys ==
    ModuleKeys \cup { LegacyPrefix \o r : r \in BackboneParams }
               \cup { <<"linear", ".", "resnet", ".", "weight">> }

\* A state dict holds a parameter of the backbone under one layout's name.
OneLayoutEach(keys) ==
    \A r \in BackboneParams : ~({LegacyPrefix \o r, ExtractorPrefix \o r} \subseteq keys)

IdleDict ==
    /\ sd_state_dict = << >>
    /\ sd_strict = TRUE
    /\ sd_pc = "idle"
    /\ sd_round = 0
    /\ sd_fixed = << >>
    /\ sd_unexpected = {}
    /\ sd_loaded = << >>

\* A state dict of up to MaxKeys entries with values 1, 2, ... in order.
InitDict ==
    /\ \E n \in 1..MaxKeys : \E keys \in [1..n -> StateKeys] :
        /\ \A j, h \in 1..n : j # h => keys[j] # keys[h]
        /\ OneLayoutEach({ keys[j] : j \in 1..n })
        /\ sd_state_dict = [ j \in 1..n |-> <<keys[j], j>> ]
    /\ sd_strict \in BOOLEAN
    /\ sd_pc = "call"
    /\ sd_round = 1
    /\ sd_fixed = << >>
    /\ sd_unexpected = {}
    /\ sd_loaded = << >>

\* Lines 241-247: the loop over state_dict.items() and the OrderedDict.
FixKeys ==
    /\ sd_pc = "call"
    /\ sd_fixed' = OrderedDict([ j \in 1..Len(sd_state_dict) |->
                                    <<fixed_key(sd_state_dict[j][1]), sd_state_dict[j][2]>> ])
    /\ sd_pc' = "fixed"
    /\ UNCHANGED <<sd_state_dict, sd_strict, sd_round, sd_unexpected, sd_loaded>>

\* Line 248: nn.Module.load_state_dict, which copies the values of the keys
\* that the module has and, when strict, raises for a key it does not have or
\* does not find.
SuperLoad ==
    /\ sd_pc = "fixed"
    /\ LET keys == { sd_fixed[j][1] : j \in 1..Len(sd_fixed) } IN
        /\ sd_unexpected' = keys \ ModuleKeys
        /\ sd_loaded' = [ k \in keys \cap ModuleKeys |->
                            sd_fixed[CHOOSE j \in 1..Len(sd_fixed) : sd_fixed[j][1] = k][2] ]
        /\ sd_pc' = IF sd_strict /\ (keys # ModuleKeys) THEN "raise" ELSE "loaded"
    /\ UNCHANGED <<sd_state_dict, sd_strict, sd_round, sd_fixed>>

\* load_state_dict is called on the dict that the first call made.
LoadFixed ==
    /\ sd_pc \in {"loaded", "raise"}
    /\ sd_round = 1
    /\ sd_state_dict' = sd_fixed
    /\ sd_round' = 2
    /\ sd_pc' = "call"
    /\ sd_fixed' = << >>
    /\ sd_unexpected' = {}
    /\ sd_loaded' = << >>
    /\ UNCHANGED sd_strict

-----------------------------------------------------------------------------
(* model.py: FeatureExtractor and FeatureExtractor.list *)

VARIABLES
    fe_internal,    \* internal_features, the list of backbone names
    fe_pc,          \* "idle", "loop", "return", "raise"
    fe_k,           \* how many names the loop of list has taken
    fe_el,          \* el, the extractors constructed so far
    fe_total,       \* total_dim
    fe_error        \* the exception raised, None if none

extractVars == <<fe_internal, fe_pc, fe_k, fe_el, fe_total, fe_error>>

\* The longest list of backbone names tried.
MaxNames == 2

\* The names __init__ has a branch for, and one it has none for.
BackboneNames ==
    {"alexnet", "densenet201", "resnet152", "resnet152-conv",
     "resnet152caffe-torchvision", "resnet152caffe-original", "resnet152caffe-conv",
     "vgg16", "inceptionv3"}

NameSet == BackboneNames \cup {"bogus"}

\* A value of output_dim: a Python int, a numpy array, or no attribute at all.
Scalar(n) == [shape |-> "int", v |-> <<n>>]
Array(v) == [shape |-> "array", v |-> v]
NoDim == [shape |-> "missing", v |-> << >>]

\* self.output_dim as __init__ leaves it for a recognised name.
OutputDim(model_name) ==
    CASE model_name = "alexnet" -> Array(<<256 * 6 * 6>>)
      [] model_name = "densenet201" -> Scalar(1920 * 7 * 7)
      [] model_name \in {"resnet152", "resnet152caffe-torchvision",
                         "resnet152caffe-original"} -> Scalar(2048)
      [] model_name \in {"resnet152-conv", "resnet152caffe-conv"} -> Array(<<2048, 7, 7>>)
      [] model_name = "vgg16" -> Scalar(4096)
      [] OTHER -> NoDim

\* FeatureExtractor(model_name): the object, or the ValueError of the else branch.
FeatureExtractor(model_name) ==
    IF model_name \in BackboneNames
    THEN [error |-> NoneStr, model_name |-> model_name,
          flatten |-> model_name \notin {"resnet152-conv", "resnet152caffe-conv"},
          output_dim |-> OutputDim(model_name)]
    ELSE [error |-> "ValueError", model_name |-> model_name, flatten |-> TRUE,
          output_dim |-> NoDim]

\* total_dim += x: Python's int addition, or numpy's broadcast addition when
\* either side is an array.
Added(total, x) ==
    LET n == IF Len(total.v) > Len(x.v) THEN Len(total.v) ELSE Len(x.v)
        at(d, j) == IF Len(d.v) = 1 THEN d.v[1] ELSE d.v[j]
    IN  [shape |-> IF total.shape = "int" /\ x.shape = "int" THEN "int" ELSE "array",
         v |-> [ j \in 1..n |-> at(total, j) + at(x, j) ]]

IdleExtractors ==
    /\ fe_internal = << >>
    /\ fe_pc = "idle"
    /\ fe_k = 0
    /\ fe_el = << >>
    /\ fe_total = Scalar(0)
    /\ fe_error = NoneStr

\* FeatureExtractor.list(internal_features) is called.
InitExtractors ==
    /\ fe_internal \in UNION { [1..n -> NameSet] : n \in 0..MaxNames }
    /\ fe_pc = "loop"
    /\ fe_k = 0
    /\ fe_el = << >>
    /\ fe_total = Scalar(0)
    /\ fe_error = NoneStr

\* One pass of the loop of list: the extractor is constructed and appended,
\* its output_dim read and added.
ListStep ==
    /\ fe_pc = "loop"
    /\ fe_k < Len(fe_internal)
    /\ LET e == FeatureExtractor(fe_internal[fe_k + 1]) IN
        IF e.error # NoneStr
        THEN /\ fe_error' = e.error
             /\ fe_pc' = "raise"
             /\ UNCHANGED <<fe_el, fe_total, fe_k>>
        ELSE /\ fe_el' = Append(fe_el, e)
             /\ IF e.output_dim = NoDim
                THEN /\ fe_error' = "AttributeError"
                     /\ fe_pc' = "raise"
                     /\ UNCHANGED <<fe_total, fe_k>>
                ELSE /\ fe_total' = Added(fe_total, e.output_dim)
                     /\ fe_k' = fe_k + 1
                     /\ UNCHANGED <<fe_error, fe_pc>>
    /\ UNCHANGED fe_internal

\* return el, total_dim
ListReturn ==
    /\ fe_pc = "loop"
    /\ fe_k = Len(fe_internal)
    /\ fe_pc' = "return"
    /\ UNCHANGED <<fe_internal, fe_k, fe_el, fe_total, fe_error>>

-----------------------------------------------------------------------------
(* The specifications *)

vars == <<schedVars, decVars, trainVars, featVars, sampleVars, dictVars, extractVars>>

\* What a step of one part of the program leaves alone: the other parts.
notSchedule == <<decVars, trainVars, featVars, sampleVars, dictVars, extractVars>>
notDecode == <<schedVars, trainVars, featVars, sampleVars, dictVars, extractVars>>
notTrain == <<schedVars, decVars, featVars, sampleVars, dictVars, extractVars>>
notFeatures == <<schedVars, decVars, trainVars, sampleVars, dictVars, extractVars>>
notSample == <<schedVars, decVars, trainVars, featVars, dictVars, extractVars>>
notDict == <<schedVars, decVars, trainVars, featVars, sampleVars, extractVars>>
notExtractors == <<schedVars, decVars, trainVars, featVars, sampleVars, dictVars>>

NextSchedule == Evaluate /\ UNCHANGED notSchedule

StartSchedule ==
    InitSchedule /\ IdleDecode /\ IdleTrain /\ IdleFeatures
        /\ IdleSample /\ IdleDict /\ IdleExtractors

SpecSchedule == StartSchedule /\ [][NextSchedule]_vars

NextDecode ==
    \/ PlainForwardAlways /\ UNCHANGED notDecode
    \/ PlainForwardBegin /\ UNCHANGED notDecode
    \/ PlainForwardStep /\ UNCHANGED notDecode
    \/ PlainForwardPack /\ UNCHANGED notDecode
    \/ SpatialForwardBegin /\ UNCHANGED notDecode
    \/ SpatialForwardStep /\ UNCHANGED notDecode
    \/ SpatialForwardPack /\ UNCHANGED notDecode
    \/ SoftForwardBegin /\ UNCHANGED notDecode
    \/ SoftForwardStep /\ UNCHANGED notDecode
    \/ SoftForwardPack /\ UNCHANGED notDecode

StartDecode ==
    InitDecode /\ IdleSchedule /\ IdleTrain /\ IdleFeatures
        /\ IdleSample /\ IdleDict /\ IdleExtractors

SpecDecode == StartDecode /\ [][NextDecode]_vars

\* One run on an empty disk: a fresh training, or a command line that main
\* rejects.
NextTrain ==
    \/ Main(LoopInputs \cup ConfigErrorInputs \cup ScoringInputs, 1) /\ UNCHANGED notTrain
    \/ Build /\ UNCHANGED notTrain
    \/ EpochHead /\ UNCHANGED notTrain
    \/ TrainBatch /\ UNCHANGED notTrain
    \/ SaveCheckpoint /\ UNCHANGED notTrain
    \/ Validate /\ UNCHANGED notTrain
    \/ WriteStats /\ UNCHANGED notTrain

StartTrain ==
    IdleTrain /\ IdleSchedule /\ IdleDecode /\ IdleFeatures
        /\ IdleSample /\ IdleDict /\ IdleExtractors

SpecTrain == StartTrain /\ [][NextTrain]_vars

\* MaxRuns runs with a validation set, one after the other, on one model
\* directory.
NextValidate ==
    \/ Main(ValidationInputs(DOMAIN fs_models), MaxRuns) /\ UNCHANGED notTrain
    \/ Build /\ UNCHANGED notTrain
    \/ EpochHead /\ UNCHANGED notTrain
    \/ TrainBatch /\ UNCHANGED notTrain
    \/ SaveCheckpoint /\ UNCHANGED notTrain
    \/ Validate /\ UNCHANGED notTrain
    \/ WriteStats /\ UNCHANGED notTrain
    \/ ValidateOnly /\ UNCHANGED notTrain
    \/ ValidateOnlyWrite /\ UNCHANGED notTrain

StartValidate ==
    IdleTrain /\ IdleSchedule /\ IdleDecode /\ IdleFeatures
        /\ IdleSample /\ IdleDict /\ IdleExtractors

SpecValidate == StartValidate /\ [][NextValidate]_vars

\* MaxRuns runs, one after the other, on one model directory.
NextResume ==
    \/ Main(ResumeInputs(DOMAIN fs_models), MaxRuns) /\ UNCHANGED notTrain
    \/ Build /\ UNCHANGED notTrain
    \/ EpochHead /\ UNCHANGED notTrain
    \/ TrainBatch /\ UNCHANGED notTrain
    \/ SaveCheckpoint /\ UNCHANGED notTrain
    \/ Validate /\ UNCHANGED notTrain
    \/ WriteStats /\ UNCHANGED notTrain

StartResume ==
    InitResume /\ IdleSchedule /\ IdleDecode /\ IdleFeatures
        /\ IdleSample /\ IdleDict /\ IdleExtractors

SpecResume == StartResume /\ [][NextResume]_vars

\* One call of _get_features.
NextFeatures == GetFeatures /\ UNCHANGED notFeatures

StartFeatures ==
    InitFeatures /\ IdleSchedule /\ IdleDecode /\ IdleTrain
        /\ IdleSample /\ IdleDict /\ IdleExtractors

SpecFeatures == StartFeatures /\ [][NextFeatures]_vars

\* Two calls of sample on one model, with the same arguments.
NextSample ==
    \/ SampleBegin /\ UNCHANGED notSample
    \/ SampleStep /\ UNCHANGED notSample
    \/ SampleReturn /\ UNCHANGED notSample
    \/ SampleAgain /\ UNCHANGED notSample

StartSample ==
    InitSample /\ IdleSchedule /\ IdleDecode /\ IdleTrain /\ IdleFeatures /\ IdleDict /\ IdleExtractors

SpecSample == StartSample /\ [][NextSample]_vars

\* load_state_dict on a state dict, then on the dict it made of it.
NextEncoderLoad ==
    \/ FixKeys /\ UNCHANGED notDict
    \/ SuperLoad /\ UNCHANGED notDict
    \/ LoadFixed /\ UNCHANGED notDict

StartEncoderLoad ==
    InitDict /\ IdleSchedule /\ IdleDecode /\ IdleTrain /\ IdleFeatures /\ IdleSample /\ IdleExtractors

SpecEncoderLoad == StartEncoderLoad /\ [][NextEncoderLoad]_vars

\* FeatureExtractor.list on a drawn list of names.
NextExtractors ==
    \/ ListStep /\ UNCHANGED notExtractors
    \/ ListReturn /\ UNCHANGED notExtractors

StartExtractors ==
    InitExtractors /\ IdleSchedule /\ IdleDecode /\ IdleTrain /\ IdleFeatures
        /\ IdleSample /\ IdleDict

SpecExtractors == StartExtractors /\ [][NextExtractors]_vars

-----------------------------------------------------------------------------
(* Properties of the decoders' forward calls, checked under SpecDecode *)

\* A finished forward call ends as ForwardResult says (the summary main's
\* model of a batch uses).
ForwardResultAgrees ==
    d_pc = "done" => d_result = ForwardResult(d_variant, d_forcing, d_persist)

\* C3: in every decoder variant, a forward call with a policy name outside
\* {always, sampled, additive, additive_sampled} fails: it never ends with a
\* normal logits result.
C3_UnknownForcingFails ==
    (d_pc = "done" /\ d_forcing \notin RecognisedForcing) => d_result # "output"

\* C4: under additive_sampled with teacher_p = 1.0, every input DecoderRNN's
\* loop has fed or is about to feed is the input the 'always' branch feeds at
\* that step: the features at step 0, the ground truth embedding
\* embeddings[:, t + 1] after step t.
C4_AdditiveSampledFeedsGroundTruth ==
    (d_variant = "plain" /\ d_forcing = "additive_sampled" /\ d_teacher_p = Scale)
        => /\ \A s \in 1..Len(d_fed) : d_fed[s] = AlwaysInputs(d_lengths)[s]
           /\ d_pc = "loop" => d_inputs = EmbeddingsAt(d_t)

\* C4's case: a call under additive_sampled with teacher_p = 1.0 that took
\* several steps and returned its output.
C4_Witness ==
    /\ d_variant = "plain" /\ d_forcing = "additive_sampled" /\ d_teacher_p = Scale
    /\ d_result = "output"
    /\ Len(d_fed) >= 2
    /\ d_fed[2] = Embed(0)

\* C5: for every batch, under every recognised policy of the plain decoder
\* and in both attention decoders, the forward call returns a packed output of
\* exactly sum(lengths) rows.
C5_PackedOutputHasSumLengthsRows ==
    (d_pc = "done" /\ (d_variant # "plain" \/ d_forcing \in RecognisedForcing))
        => (d_result = "output" /\ Len(d_rows) = SumLengths(d_lengths))

-----------------------------------------------------------------------------
(* Properties of get_teacher_prob, checked under SpecSchedule *)

\* What "approximately 1.0" allows: 0.01.
Tolerance == Scale \div 100

C7_StartsNearOne ==
    (tf_i = 0 /\ tf_k > 0) => Scale - tf_p <= Tolerance

\* C7 amended: for every k > 0 and beta, get_teacher_prob(k, 0, beta) is
\* k / (k + 1) (rounded down to the resolution), which is within the tolerance
\* of 1.0 from the documented range of k (400) on.
C7_StartsAtKOverKPlusOne ==
    (tf_i = 0 /\ tf_k > 0)
        => /\ tf_p * (tf_k + 1) <= tf_k * Scale
           /\ tf_k * Scale < (tf_p + 1) * (tf_k + 1)
           /\ tf_k >= 400 => Scale - tf_p <= Tolerance

\* C7's case: the schedule evaluated at iteration 0 for a k of the documented
\* range, with a result near but below 1.0.
C7_Witness ==
    tf_i = 0 /\ tf_k >= 400 /\ tf_beta # 0 /\ tf_p < Scale /\ Scale - tf_p <= Tolerance

\* C8 as stated: for every k > 0 and every beta, the schedule does not
\* increase with the iteration index, and its values lie in [0, 1].
C8_MonotoneForAnyBeta ==
    (tf_k > 0 /\ tf_i >= 0)
        => /\ 0 <= tf_p /\ tf_p <= Scale
           /\ tf_prev[1] >= 0 =>
                /\ tf_prev[1] <= tf_i => tf_p <= tf_prev[2]
                /\ tf_i <= tf_prev[1] => tf_prev[2] <= tf_p

\* C8 amended: for every k > 0 the values lie in [0, 1], and for beta >= 0 the
\* schedule does not increase with the iteration index.
C8_MonotoneForNonNegativeBeta ==
    (tf_k > 0 /\ tf_i >= 0)
        => /\ 0 <= tf_p /\ tf_p <= Scale
           /\ (tf_beta >= 0 /\ tf_prev[1] >= 0) =>
                /\ tf_prev[1] <= tf_i => tf_p <= tf_prev[2]
                /\ tf_i <= tf_prev[1] => tf_prev[2] <= tf_p

\* C8's case: two evaluations at increasing iterations, the later one
\* strictly smaller.
C8_Witness ==
    /\ tf_k > 0 /\ tf_beta > 0
    /\ tf_prev[1] >= 0 /\ tf_prev[1] < tf_i
    /\ tf_p < tf_prev[2]

-----------------------------------------------------------------------------
(* Properties of one training run, checked under SpecTrain *)

\* C1: whenever the batch loop of an epoch has finished, the run's next step
\* saves the checkpoint of that epoch, file ep{epoch + 1}.model with record
\* field epoch = epoch + 1, whatever the number of batches the loader yielded,
\* the cap, the losses and the validation settings; validation and the stats
\* write come after it.
C1_CheckpointAfterEveryEpoch ==
    [][ pc = "epoch_end" =>
            LET file == CheckpointPath(get_model_name(args, params), epoch + 1) IN
            /\ file \in DOMAIN fs_models'
            /\ fs_models'[file].epoch = epoch + 1
            /\ pc' = "saved" ]_vars

-----------------------------------------------------------------------------
(* Properties of runs on one model directory, checked under SpecResume *)

\* The epoch numbers N of the files <model_path>/<name>/ep<N>.model.
CheckpointEpochs(files, name) ==
    { file.num : file \in { f \in files : f = CheckpointPath(name, f.num) } }

\* C2: a run started with --resume that gets to training has taken the
\* checkpoint with the largest epoch number among the files ep<N>.model of the
\* directory of the model name derived from its parameters, and starts from
\* that epoch; it has no checkpoint only when the directory holds none.
C2_ResumeFindsLatestCheckpoint ==
    [][ (pc = "stopped" /\ pc' # "stopped" /\ argv'.resume) =>
            LET model_name == get_model_name(argv', fromargs(argv'))
                epochs == CheckpointEpochs(DOMAIN fs_models, model_name)
            IN  IF epochs = {}
                THEN args'.load_model = NoPath /\ state' = NoState
                ELSE /\ args'.load_model = CheckpointPath(model_name, Max(epochs))
                     /\ state' = fs_models[args'.load_model]
                     /\ start_epoch' = Max(epochs) ]_vars

\* What a reader of a stats file gets: the pairs <<epoch, stats>>.
StatsEntries(text) ==
    LET d == json_load(text) IN { <<d[j][1].n, d[j][2]>> : j \in 1..Len(d) }

\* C9: in a run started with --resume or --load_model, every save_stats keeps
\* every entry the model's stats file held, with its value, apart from the
\* entry of the epoch just run.
C9_StatsNeverTruncated ==
    [][ (pc = "write_stats" /\ (argv.resume \/ argv.load_model # NoPath)) =>
            \A file \in DOMAIN fs_stats : \A e \in StatsEntries(fs_stats[file]) :
                e[1] # epoch + 1 =>
                    (file \in DOMAIN fs_stats' /\ e \in StatsEntries(fs_stats'[file])) ]_vars

\* The fields of ModelParams other than features.
ParamFields ==
    { "embed_size", "hidden_size", "num_layers", "batch_size", "learning_rate",
      "dropout", "encoder_dropout", "persist_features", "attention", "vocab" }

\* C10: a checkpoint just saved holds the run's ModelParams fields and its
\* vocabulary, and in a run that loaded a checkpoint every ModelParams field
\* equals the loaded one, but for the external features when the command line
\* names some; the sizes of the command line do not replace the checkpoint's.
C10_LoadReproducesModelParams ==
    /\ pc = "saved" =>
        LET saved == fs_models[CheckpointPath(get_model_name(args, params), epoch + 1)] IN
        /\ \A f \in ParamFields \ {"vocab"} : saved[f] = params[f]
        /\ saved.features = params.features
        /\ saved.vocab = vocab
    /\ (pc # "stopped" /\ state # NoState) =>
        /\ \A f \in ParamFields : params[f] = state[f]
        /\ vocab = state.vocab
        /\ params.features.internal = state.features.internal
        /\ params.features.external =
                IF Len(fromargs(argv).features.external) > 0
                THEN fromargs(argv).features.external
                ELSE state.features.external

\* C11: in a run that loaded a checkpoint, where the command line names
\* external features that differ from the checkpoint's, the run goes on with
\* the command line's external features in place of the checkpoint's, in
\* features and in persist_features alike; the internal features and the other
\* fields are the checkpoint's.
C11_ExternalFeaturesRemapped ==
    (pc # "stopped" /\ state # NoState) =>
        LET requested == fromargs(argv) IN
        /\ (/\ Len(requested.features.external) > 0
            /\ requested.features.external # state.features.external)
                => params.features.external = requested.features.external
        /\ (/\ Len(requested.persist_features.external) > 0
            /\ requested.persist_features.external # state.persist_features.external)
                => params.persist_features.external = requested.persist_features.external
        /\ params.features.internal = state.features.internal
        /\ params.persist_features.internal = state.persist_features.internal
        /\ \A f \in ParamFields \ {"persist_features", "learning_rate"} :
                params[f] = state[f]

\* C12: a run that main ends with exit status 1 for a configuration error has
\* written nothing: the model directory, the checkpoints, the stats files and
\* the other paths are as they were when the run began.
C12_ConfigErrorWritesNothing ==
    [][(pc = "stopped" /\ status' = "exit 1") => UNCHANGED fsVars]_vars

\* Whether the name fn has a file extension: in its last path component there
\* is a dot with a character other than a dot before it.
HasExtension(fn) ==
    \E k \in 1..Len(fn) :
        /\ fn[k] = "."
        /\ \A j \in (k + 1)..Len(fn) : fn[j] # "/"
        /\ \E h \in 1..(k - 1) : fn[h] # "." /\ \A j \in h..k : fn[j] # "/"

\* The entries of a feature string: the pieces that, joined by commas, give
\* the string back, none with a comma in it.
EntriesOf(text) ==
    LET entries == split(text, ",") IN
    IF /\ join(",", entries) = text
       /\ \A e \in 1..Len(entries) : \A j \in 1..Len(entries[e]) : entries[e][j] # ","
    THEN entries
    ELSE <<<<"?">>>>

\* What _get_features returns for a str: the entries with a file extension in
\* external, the others in internal, each in the order of the string; two empty
\* lists for ''.  A Features tuple is returned as it is.
ParsedAsSpecified(p, result) ==
    IF "internal" \in DOMAIN p THEN result = p
    ELSE IF p.str = << >> THEN result = Features(<< >>, << >>)
    ELSE /\ result.external = SelectSeq(EntriesOf(p.str), HasExtension)
         /\ result.internal = SelectSeq(EntriesOf(p.str), LAMBDA fn : ~HasExtension(fn))
         /\ Len(result.external) + Len(result.internal) = Len(EntriesOf(p.str))

\* Whether d holds a value other than None under the parameter.
SpecPresent == gf_param \in DOMAIN gf_d /\ gf_d[gf_param] # NoFeatureString

\* C13, as stated: the entries of a feature string are partitioned into external
\* (file extension) and internal (none) with their order kept, a Features tuple
\* is returned unchanged, and an empty or absent string gives two empty lists.
C13_AbsentSpecGivesEmptyLists ==
    gf_pc = "return" =>
        IF SpecPresent THEN ParsedAsSpecified(gf_d[gf_param], gf_result)
        ELSE gf_result = Features(<< >>, << >>)

\* C13, amended: as above, but an absent string (no key, or None) is parsed as
\* the parameter's default: 'resnet152' for features, '' for persist_features.
C13_AbsentSpecGivesDefault ==
    gf_pc = "return" =>
        IF SpecPresent THEN ParsedAsSpecified(gf_d[gf_param], gf_result)
        ELSE IF gf_param = "features"
        THEN gf_result = Features(<< >>, <<<<"resnet152">>>>)
        ELSE gf_result = Features(<< >>, << >>)

C13_Witness ==
    /\ gf_pc = "return"
    /\ gf_d = ("features" :> [str |-> ExampleSpec])
    /\ gf_result = Features(<<<<"feat", ".", "npy">>>>, <<<<"resnet152">>>>)

\* Whether the arguments of the call are tensors the decoder can read: the
\* spatial decoder needs the grid of persistent external features.
SampleCallable == sm_variant = "spatial" => sm_persist

\* The ids returned by the latest call: max_seq_length for each example, each
\* the index of the largest logit of its step, and each but the last one fed
\* back (embedded) as the next step's input.
SampledGreedily(result) ==
    /\ Len(result) = Len(sm_images)
    /\ \A e \in 1..Len(result) :
        /\ Len(result[e]) = sm_max
        /\ \A t \in 1..Len(result[e]) :
            /\ \A v \in 0..(VocabSize - 1) : sm_logits[t][e][v] <= sm_logits[t][e][result[e][t]]
            /\ t > 1 => sm_fed[t][e] =
                            IF sm_variant = "plain" /\ sm_persist
                            THEN (embed(result[e][t - 1]) + Grid(sm_images[e])) % UnitValues
                            ELSE embed(result[e][t - 1])

\* C14: for every input and every max_seq_length, a call of sample that has
\* ended has returned exactly max_seq_length ids for each example, each the id
\* of the largest logit of its step and fed back as the next input, whether or
\* not <end> is among them.
C14_SampleReturnsMaxSeqLengthIds ==
    (SampleCallable /\ sm_pc \in {"return", "raise"}) =>
        /\ sm_pc = "return"
        /\ SampledGreedily(sm_returned[Len(sm_returned)])

\* C15: on a model in evaluation mode whose parameters do not change, no step
\* of a sample call changes the model's running statistics, and the second of
\* two calls with the same input and max_seq_length returns the ids that the
\* first returned.
C15_SampleTwiceGivesSameIds ==
    [][~sm_training =>
        /\ sm_running' = sm_running
        /\ (sm_pc = "loop" /\ sm_pc' = "return" /\ sm_call = 2)
                => sm_returned'[2] = sm_returned'[1]]_vars

C15_Witness ==
    /\ ~sm_training
    /\ sm_dropout
    /\ sm_variant = "plain"
    /\ sm_pc = "return"
    /\ sm_call = 2
    /\ sm_max = MaxSeq
    /\ Len(sm_images) = MaxSampleBatch
    /\ sm_returned[2] = sm_returned[1]
    /\ sm_returned[1][1] # sm_returned[1][2]

\* The scorer names asked for on the command line, in lower case and without
\* blanks around them.
ScorersAskedFor(a) ==
    IF a.validation_scoring = NoScoringString THEN {}
    ELSE LET names == split(a.validation_scoring.str, ",")
         IN  { strip(lower(names[j])) : j \in 1..Len(names) }

\* C16: a run that asked for a validation scorer which is not recognised, or
\* which cannot be imported, ends before its first training epoch: while main
\* is past its setup, every scorer asked for is one that was made.
C16_UnusableScorerFailsFast ==
    (pc # "stopped") =>
        \A name \in ScorersAskedFor(argv) : name = <<"cider">> /\ "CIDEr" \in scorers

\* Whether the key begins with resnet and a dot.
IsLegacyKey(key) == Len(key) >= 2 /\ key[1] = "resnet" /\ key[2] = "."

\* C17: the dict handed to nn.Module.load_state_dict has, entry by entry in the
\* order of state_dict, the key `extractors.0.extractor.` + remainder for a
\* key that begins with `resnet.`, the same key for any other, and the same
\* value; no key that was renamed is among the keys the module does not know;
\* and a second call, on the renamed dict, leaves it as it is.
C17_LegacyKeysRenamed ==
    sd_pc \in {"fixed", "loaded", "raise"} =>
        /\ Len(sd_fixed) = Len(sd_state_dict)
        /\ \A j \in 1..Len(sd_state_dict) :
            LET key == sd_state_dict[j][1] IN
            /\ sd_fixed[j][2] = sd_state_dict[j][2]
            /\ IsLegacyKey(key) =>
                    /\ sd_fixed[j][1] = ExtractorPrefix \o Tail(Tail(key))
                    /\ sd_fixed[j][1] \notin sd_unexpected
            /\ ~IsLegacyKey(key) => sd_fixed[j][1] = key
        /\ sd_round = 2 => sd_fixed = sd_state_dict

C17_Witness ==
    /\ sd_pc = "loaded"
    /\ sd_strict
    /\ sd_round = 1
    /\ IsLegacyKey(sd_state_dict[1][1])
    /\ ~IsLegacyKey(sd_state_dict[2][1])
    /\ IsLegacyKey(sd_state_dict[3][1])
    /\ sd_loaded[ExtractorPrefix \o Tail(Tail(sd_state_dict[3][1]))] = 3

\* C18: at every decode step t taken, in every decoder and under every forcing
\* policy, the examples advanced are the first sum(lengths > t) of the batch,
\* and that number does not grow from one step to the next.
C18_ActiveSliceIsPrefixLongerThanT ==
    \A s \in 1..Len(d_active) :
        /\ d_active[s] = batch_size_t(d_lengths, s - 1)
        /\ s > 1 => d_active[s] <= d_active[s - 1]

\* C19: in every training batch the calls on the gradient buffers are
\* zero_grad, backward, clip_gradients (only when grad_clip is set) and step,
\* in this order, and what the optimizer step reads is the gradient of the
\* batch at hand alone, clamped to [-grad_clip, grad_clip] when grad_clip is set.
C19_OneBatchPerOptimizerStep ==
    [][weights' # weights + 1 \/
        LET loss == total_loss' - total_loss
            clip == args.grad_clip
        IN  /\ applied'.ops = IF clip # NoneInt
                              THEN <<"zero_grad", "backward", "clip_gradients", "step">>
                              ELSE <<"zero_grad", "backward", "step">>
            /\ applied'.from = {weights'}
            /\ applied'.value = IF clip # NoneInt /\ loss > clip THEN clip ELSE loss]_vars

C19_Witness ==
    /\ weights = 2
    /\ epoch = 1
    /\ args.grad_clip = 2 * Scale
    /\ total_loss = 3 * Scale
    /\ applied.from = {2}
    /\ applied.value = 2 * Scale
    /\ applied.ops = <<"zero_grad", "backward", "clip_gradients", "step">>

\* C20: the iteration index given to get_teacher_prob is the number of training
\* batches that this run processed before the batch at hand: 0 for the first,
\* and one more for every batch, from one epoch into the next.
C20_IterationCountsBatches ==
    [][weights' = weights + 1 => iteration' = weights]_vars

\* C21: at the end of every epoch e that main gets through, do_validate has run
\* (the epoch's stats hold validation_loss) exactly when a validation set is
\* configured and (e + 1) mod validation_step = 0; the scheduler, when enabled,
\* is stepped once, with that loss, in an epoch with validation and not at all
\* in one without.
C21_ValidationEveryValidationStep ==
    [][(pc = "saved" /\ pc' = "write_stats") =>
        LET validated == "validation_loss" \in DOMAIN stats'
            due == /\ args.validate # NoneStr
                   /\ \E q \in 1..(epoch + 1) : q * args.validation_step = epoch + 1
        IN  /\ validated <=> due
            /\ scheduler' = IF validated /\ args.lr_scheduler
                            THEN Append(scheduler, stats'["validation_loss"])
                            ELSE scheduler]_vars

C21_Witness ==
    /\ pc = "write_stats"
    /\ epoch = 1
    /\ args.validation_step = 2
    /\ args.lr_scheduler
    /\ "validation_loss" \in DOMAIN stats
    /\ scheduler = <<stats["validation_loss"]>>
    /\ \E j \in 1..Len(all_stats) :
            /\ all_stats[j][1] = IntKey(1)
            /\ "validation_loss" \notin DOMAIN all_stats[j][2]

\* The entries of the run's stats file whose key is the text of epoch number n.
EntriesForEpoch(file, n) == { j \in 1..Len(file) : file[j][1] = n }

\* C22: when main finishes an epoch e, the stats file it has just rewritten holds
\* exactly one entry under the key e + 1, with training_loss = total loss /
\* number of batches and with validation_loss exactly when validation ran in
\* the epoch, and every entry all_stats held for another epoch is still there.
C22_OneStatsEntryPerEpoch ==
    [][(pc = "write_stats" /\ pc' = "epoch_head") =>
        LET file == fs_stats'[stats_filename(args, params, NoneStr)]
            mine == EntriesForEpoch(file, epoch + 1)
        IN  /\ Cardinality(mine) = 1
            /\ \A j \in mine :
                /\ file[j][2]["training_loss"] = total_loss \div num_batches
                /\ "validation_loss" \in DOMAIN file[j][2] <=> ValidationDue(args, epoch)
            /\ \A j \in 1..Len(all_stats) :
                all_stats[j][1].n # epoch + 1
                    => \E k \in 1..Len(file) :
                        file[k] = <<all_stats[j][1].n, all_stats[j][2]>>]_vars

\* The input DecoderRNN.forward chose at step t for the whole batch: fed at
\* step t + 1, or still in inputs when t was the last step.
ChosenAt(t) == IF t + 1 = d_t THEN d_inputs ELSE d_fed[t + 2]

\* C23: under policy sampled, forward has drawn once for every step taken, the
\* input chosen at step t for the whole batch is the ground truth
\* embeddings[:, t + 1] when that step's draw is below teacher_p and the
\* embedding of the argmax prediction otherwise, and with teacher_p = 1.0
\* every step's choice is the ground truth.
C23_SampledDrawsOncePerStep ==
    (d_variant = "plain" /\ d_forcing = "sampled" /\ d_pc \in {"loop", "done"}
        /\ d_result # "raise") =>
        /\ Len(d_draws) = d_t
        /\ \A t \in 0..(d_t - 1) :
            /\ ChosenAt(t) = IF d_draws[t + 1] < d_teacher_p
                             THEN EmbeddingsAt(t + 1) ELSE Predicted(t)
            /\ d_teacher_p = Scale => ChosenAt(t) = EmbeddingsAt(t + 1)

\* A finished call that took the prediction at step 0 and the ground truth at
\* step 1, at teacher_p = 0.5.
C23_Witness ==
    /\ d_variant = "plain" /\ d_forcing = "sampled" /\ d_pc = "done"
    /\ d_result = "output"
    /\ d_teacher_p = Scale \div 2
    /\ Len(d_draws) >= 2 /\ Len(d_fed) >= 3
    /\ d_fed[2] = Predicted(0)
    /\ d_fed[3] = EmbeddingsAt(2)

\* The latest call on the gradient buffers g was optimizer.step().
SteppedLast(g) == Len(g.ops) > 0 /\ g.ops[Len(g.ops)] = "step"

\* C24: once the model is built, its weights change only in a batch's
\* optimizer step; and a step of main that runs do_validate (after save_model
\* or in the --validate_only branch) leaves the weights, the gradient buffers
\* and the record of optimizer steps as they were, and the checkpoint files
\* too.
C24_OnlyOptimizerStepChangesWeights ==
    [][/\ (pc \notin {"stopped", "build"} /\ pc' # "stopped" /\ weights' # weights)
            => (pc = "batch" /\ SteppedLast(applied') /\ applied' # applied)
       /\ (pc \in {"saved", "validate_only"})
            => /\ fs_models' = fs_models
               /\ pc' # "stopped"
                    => weights' = weights /\ grad' = grad /\ applied' = applied]_vars

\* A --validate_only run has validated a trained checkpoint.
C24_Witness ==
    /\ pc = "validated"
    /\ "validation_loss" \in DOMAIN stats
    /\ weights > 0
    /\ grad = NoGrad

\* C25: every extractor FeatureExtractor.list has constructed has an
\* output_dim, an int when it flattens and a 3-element array when it does
\* not, and the call fails only on a name __init__ has no branch for, with
\* the ValueError of the constructor.
C25_AcceptedNamesHaveOutputDim ==
    /\ \A j \in 1..Len(fe_el) :
        /\ fe_el[j].output_dim # NoDim
        /\ fe_el[j].flatten => Len(fe_el[j].output_dim.v) = 1
        /\ ~fe_el[j].flatten => Len(fe_el[j].output_dim.v) = 3
    /\ fe_pc = "raise" =>
        /\ fe_error = "ValueError"
        /\ fe_internal[fe_k + 1] \notin BackboneNames

\* C26: in every run, from the moment main has its parameters, the attention
\* value that selects the model class and the unpacking of forward's result
\* (args.attention) is the one that selects the unpacking of sample's result
\* (params.attention), also when the run has loaded a checkpoint.
C26_OneAttentionValue ==
    status = "running" => args.attention = params.attention

\* C27: save_model after epoch e writes ep{e + 1}.model with epoch = e + 1 in
\* it; a run that loaded a checkpoint, without --force_epoch, enters the epoch
\* loop at the checkpoint's epoch, which is the number in its file name; the
\* epoch goes up by one at the end of each epoch and not otherwise; and a run
\* whose loaded epoch is num_epochs or more trains nothing and leaves the disk
\* as it found it.
C27_EpochNumberingContinuous ==
    [][/\ (pc = "epoch_end" /\ pc' = "saved") =>
            LET file == CheckpointPath(get_model_name(args, params), epoch + 1) IN
            /\ DOMAIN fs_models' = DOMAIN fs_models \cup {file}
            /\ fs_models'[file].epoch = epoch + 1
       /\ (pc = "build" /\ pc' = "epoch_head" /\ state # NoState /\ args.force_epoch = 0) =>
            /\ epoch' = state.epoch
            /\ state.epoch = args.load_model.num
       /\ (pc = "write_stats" /\ pc' # "stopped") => epoch' = epoch + 1
       /\ (pc \in {"epoch_head", "batch", "epoch_end", "saved"} /\ pc' # "stopped") =>
            epoch' = epoch
       /\ (pc = "epoch_head" /\ epoch >= args.num_epochs) =>
            pc' = "stopped" /\ status' = "exit 0" /\ UNCHANGED fsVars
       /\ (pc' = "build" /\ state' # NoState) => UNCHANGED fsVars
       /\ (pc = "build" /\ state # NoState) => UNCHANGED fsVars]_vars

\* A run that loaded ep1.model has trained 0-based epoch 1 and saved ep2.model.
C27_Witness ==
    /\ pc = "saved"
    /\ state # NoState
    /\ state.epoch = 1
    /\ start_epoch = 1
    /\ epoch = 1
    /\ CheckpointPath(get_model_name(args, params), 2) \in DOMAIN fs_models

\* C28: every training pass of the process ran with the model in training
\* mode, every validation forward pass and every sample in evaluation mode,
\* and between the steps of main the model is in training mode.
C28_TrainingModeInTrainingPasses ==
    /\ \A call \in forwards :
        /\ call[1] = "train" => call[2]
        /\ call[1] \in {"valid", "sample"} => ~call[2]
    /\ model_training

\* A run has trained a batch after a validation that sampled.
C28_Witness ==
    /\ pc = "epoch_end"
    /\ epoch = 1
    /\ forwards = {<<"train", TRUE>>, <<"valid", FALSE>>, <<"sample", FALSE>>}

\* The slot of alphas that step t of the loop writes: t + 1 in
\* SoftAttentionDecoderRNN, t in SpatialAttentionDecoderRNN.
AlphaSlot(variant, t) == IF variant = "soft" THEN t + 1 ELSE t

\* The steps taken that wrote the row of example b in slot s.
AlphaWriters(b, s) ==
    { t \in 0..(Len(d_active) - 1) :
        AlphaSlot(d_variant, t) = s /\ b < d_active[t + 1] }

\* C29: in the alphas an attention decoder returns, the row of example b in
\* slot s holds weights exactly when a step of the loop writes slot s and
\* lengths[b] exceeds that step's index; it was then written by one step only;
\* and every row in a slot at or past the example's length is zero.
C29_AlphaRowsOfActiveExamplesOnly ==
    (d_pc = "done" /\ d_variant \in {"spatial", "soft"}) =>
        \A b \in DOMAIN d_lengths : \A s \in 0..(SeqLength(d_variant, d_lengths) - 1) :
            /\ d_alphas[b][s] = "alpha" <=>
                    \E t \in 0..(SeqLength(d_variant, d_lengths) - 2) :
                        AlphaSlot(d_variant, t) = s /\ d_lengths[b] > t
            /\ d_alphas[b][s] = "alpha" <=> AlphaWriters(b, s) # {}
            /\ Cardinality(AlphaWriters(b, s)) <= 1
            /\ s >= d_lengths[b] => d_alphas[b][s] = "zero"

\* The caption positions an input of the recurrent cell is computed from.
TokensOf(input) == IF input.src = "gt" THEN {input.pos} ELSE {}

\* Every input the call fed was the features or a ground truth embedding.
GroundTruthFed == \A k \in 1..Len(d_fed) : d_fed[k].src \in {"features", "gt"}

\* The caption positions the content of output slot s is computed from: the
\* one-hot of captions[:, 0] in slot 0 of SoftAttentionDecoderRNN, else the
\* inputs consumed up to the step that wrote the slot.
SlotTokens(s) ==
    IF d_variant = "soft" /\ s = 0 THEN {0}
    ELSE LET writer == IF d_variant = "soft" THEN s - 1 ELSE s
         IN  UNION { TokensOf(d_fed[k]) : k \in 1..(writer + 1) }

\* C30 as stated: in a finished forward call fed with ground truth only, every
\* packed output row of slot s is computed from caption tokens at positions
\* strictly before s, in every decoder.
C30_SlotIndependentOfItsTarget ==
    (d_pc = "done" /\ d_result = "output" /\ GroundTruthFed) =>
        \A r \in 1..Len(d_rows) : \A c \in SlotTokens(d_rows[r][2]) : c < d_rows[r][2]

\* C30, amended: the same for every slot but slot 0 of SoftAttentionDecoderRNN,
\* which is the one-hot encoding of the caption's token at position 0.
C30_ComputedSlotIndependentOfItsTarget ==
    (d_pc = "done" /\ d_result = "output" /\ GroundTruthFed) =>
        \A r \in 1..Len(d_rows) :
            ~(d_variant = "soft" /\ d_rows[r][2] = 0) =>
                \A c \in SlotTokens(d_rows[r][2]) : c < d_rows[r][2]

\* A finished call of each kind on captions of three tokens: the last slot is
\* computed from tokens 0 and 1.
C30_Witness ==
    /\ d_pc = "done" /\ d_result = "output" /\ GroundTruthFed
    /\ d_variant = "spatial"
    /\ d_lengths[0] = MaxLen
    /\ SlotTokens(MaxLen - 1) = 0..(MaxLen - 2)
    /\ \E r \in 1..Len(d_rows) : d_rows[r][2] = MaxLen - 1

====
